---- MODULE Spec2Model ----
(***************************************************************************)
(* Model of the live conversation core of numerologist-ai (backend/src):   *)
(*   - the numerology engine and the function dispatch handlers            *)
(*     (services/numerology_service.py, voice_pipeline/function_handlers)  *)
(*   - fire-and-forget message persistence (voice_pipeline/pipecat_bot.py) *)
(*   - ending a conversation (api/v1/endpoints/conversations.py)           *)
(*   - the context cache (services/conversation_service.py) and the        *)
(*     token-budgeted formatting (voice_pipeline/system_prompts.py)        *)
(*   - starting a conversation, the room provider client                   *)
(*     (services/daily_service.py) and the construction of the pipeline    *)
(*     (run_bot)                                                           *)
(*                                                                         *)
(* A Python call either returns a value or raises: an outcome is a record  *)
(* [ok |-> TRUE, val |-> v] or [ok |-> FALSE, exc |-> name], and a         *)
(* try/except is a case distinction on the outcome.                        *)
(***************************************************************************)
EXTENDS Integers, Sequences, FiniteSets, TLC

VARIABLES
    fn_call,      \* dispatch: the tool call under evaluation
    fn_outcome,   \* dispatch: outcome of handle_numerology_function
    now,          \* the wall clock read by datetime.now(timezone.utc)
    context,      \* pipeline: messages of the running context (llm_context)
    tasks,        \* pipeline: the save tasks created by add_message_with_save
    messages,     \* storage: the persisted ConversationMessage rows
    fmt_in,       \* formatting: the list of summaries to format
    fmt_out,      \* formatting: the text returned for fmt_in
    db_convs,     \* storage: the Conversation rows, by id
    cache,        \* cache store: the entry of the key context:{user_id}
    wseq,         \* number of cache writes so far; stamps the entries
    rooms,        \* room provider: the rooms that exist
    ereq,         \* the end_conversation requests, by position
    greq,         \* the get_conversation_context_cached calls, by position
    hist,         \* history: commits and invalidations seen so far
    settings,     \* configuration: the credentials set, the voice language
    sreq,         \* the start_conversation requests, by position
    bots,         \* the run_bot tasks, by conversation
    loop          \* the reasoning step and its tool calls in a pipeline

dispatchVars == <<fn_call, fn_outcome>>

saveVars == <<context, tasks>>

fmtVars == <<fmt_in, fmt_out>>

endVars == <<db_convs, cache, wseq, rooms, ereq, greq, hist>>

startVars == <<settings, sreq, bots, loop>>

vars == <<fn_call, fn_outcome, now, context, tasks, messages, fmt_in, fmt_out,
          db_convs, cache, wseq, rooms, ereq, greq, hist,
          settings, sreq, bots, loop>>

None == [t |-> "none"]

Ret(v) == [ok |-> TRUE, val |-> v]

Raise(e) == [ok |-> FALSE, exc |-> e]

(***************************************************************************)
(* Numerology engine                                                       *)
(***************************************************************************)
MASTER_NUMBERS_None == {}

MASTER_NUMBERS == {11, 22, 33}

RECURSIVE DigitSum(_)
DigitSum(n) == IF n < 10 THEN n ELSE (n % 10) + DigitSum(n \div 10)

RECURSIVE reduce_to_single_digit(_)
reduce_to_single_digit_OneStep(number) ==
    IF number > 9 /\ number \notin MASTER_NUMBERS THEN DigitSum(number) ELSE number

reduce_to_single_digit(number) ==
    IF number > 9 /\ number \notin MASTER_NUMBERS
    THEN reduce_to_single_digit(DigitSum(number))
    ELSE number

calculate_life_path_NoFinalReduce(birth_date) ==
    LET month_reduced == reduce_to_single_digit(birth_date.month)
        day_reduced   == reduce_to_single_digit(birth_date.day)
        year_reduced  == reduce_to_single_digit(DigitSum(birth_date.year))
    IN  month_reduced + day_reduced + year_reduced

calculate_life_path(birth_date) ==
    LET month_reduced == reduce_to_single_digit(birth_date.month)
        day_reduced   == reduce_to_single_digit(birth_date.day)
        year_reduced  == reduce_to_single_digit(DigitSum(birth_date.year))
    IN  reduce_to_single_digit(month_reduced + day_reduced + year_reduced)

\* Characters are one-letter strings.  Lower/UpperLetters are the ASCII
\* alphabet; NonAsciiLetters are letters of other alphabets (str.isalpha is
\* true of them, and str.upper maps them to a letter that is not ASCII).
LowerLetters ==
    <<"a", "b", "c", "d", "e", "f", "g", "h", "i", "j", "k", "l", "m",
      "n", "o", "p", "q", "r", "s", "t", "u", "v", "w", "x", "y", "z">>

UpperLetters ==
    <<"A", "B", "C", "D", "E", "F", "G", "H", "I", "J", "K", "L", "M",
      "N", "O", "P", "Q", "R", "S", "T", "U", "V", "W", "X", "Y", "Z">>

NonAsciiLetters == {"Dstroke", "dstroke"}

Range(f) == { f[i] : i \in DOMAIN f }

IsAlpha(ch) == ch \in Range(LowerLetters) \cup Range(UpperLetters) \cup NonAsciiLetters

Upper(ch) ==
    IF ch \in Range(LowerLetters)
    THEN UpperLetters[CHOOSE i \in DOMAIN LowerLetters : LowerLetters[i] = ch]
    ELSE IF ch = "dstroke" THEN "Dstroke" ELSE ch

\* _LETTER_VALUES: A=1 .. I=9, J=1 .. R=9, S=1 .. Z=8
LETTER_VALUES ==
    [ch \in Range(UpperLetters) |->
        (((CHOOSE i \in DOMAIN UpperLetters : UpperLetters[i] = ch) - 1) % 9) + 1]

VOWELS == {"A", "E", "I", "O", "U"}

RECURSIVE CleanName(_)
CleanName(s) ==
    IF s = <<>> THEN <<>>
    ELSE (IF IsAlpha(Head(s)) THEN <<Upper(Head(s))>> ELSE <<>>) \o CleanName(Tail(s))

RECURSIVE VowelsOnly(_)
VowelsOnly(s) ==
    IF s = <<>> THEN <<>>
    ELSE (IF Head(s) \in VOWELS THEN <<Head(s)>> ELSE <<>>) \o VowelsOnly(Tail(s))

\* sum(_LETTER_VALUES[char] for char in s): a KeyError when a character has
\* no entry in the mapping.
RECURSIVE SumLetterValues(_)
SumLetterValues(s) ==
    IF s = <<>> THEN Ret(0)
    ELSE IF Head(s) \notin DOMAIN LETTER_VALUES THEN Raise("KeyError")
    ELSE LET rest == SumLetterValues(Tail(s))
         IN  IF rest.ok THEN Ret(LETTER_VALUES[Head(s)] + rest.val) ELSE rest

calculate_expression_number(full_name) ==
    LET total == SumLetterValues(CleanName(full_name))
    IN  IF total.ok THEN Ret(reduce_to_single_digit(total.val)) ELSE total

calculate_soul_urge_number(full_name) ==
    LET total == SumLetterValues(VowelsOnly(CleanName(full_name)))
    IN  IF total.ok THEN Ret(reduce_to_single_digit(total.val)) ELSE total

(***************************************************************************)
(* Argument values handed over by the reasoning service                    *)
(*   [t |-> "none"]               null                                     *)
(*   [t |-> "int", i |-> n]       a number                                 *)
(*   [t |-> "str", s |-> chars]   a text, as the sequence of its characters*)
(*   [t |-> "dict", m |-> map]    an argument map                          *)
(***************************************************************************)
StrV(s) == [t |-> "str", s |-> s]

IntV(n) == [t |-> "int", i |-> n]

DictV(m) == [t |-> "dict", m |-> m]

DigitChars == <<"0", "1", "2", "3", "4", "5", "6", "7", "8", "9">>

IsDigit(ch) == ch \in Range(DigitChars)

DigitVal(ch) == (CHOOSE i \in DOMAIN DigitChars : DigitChars[i] = ch) - 1

AllDigits(s) == \A i \in DOMAIN s : IsDigit(s[i])

RECURSIVE ParseInt(_)
ParseInt(s) ==
    IF s = <<>> THEN 0 ELSE 10 * ParseInt(SubSeq(s, 1, Len(s) - 1)) + DigitVal(s[Len(s)])

\* The fields of s between the separators "-"
RECURSIVE SplitDash(_)
SplitDash(s) ==
    IF \A i \in DOMAIN s : s[i] # "-" THEN <<s>>
    ELSE LET k == CHOOSE i \in DOMAIN s : s[i] = "-" /\ \A j \in 1..(i - 1) : s[j] # "-"
         IN  <<SubSeq(s, 1, k - 1)>> \o SplitDash(SubSeq(s, k + 1, Len(s)))

IsLeap(y) == (y % 4 = 0 /\ y % 100 # 0) \/ y % 400 = 0

DaysInMonth(y, m) ==
    IF m = 2 THEN (IF IsLeap(y) THEN 29 ELSE 28)
    ELSE IF m \in {4, 6, 9, 11} THEN 30 ELSE 31

\* datetime.strptime(v, "%Y-%m-%d").date(): four digits of year, one or two
\* of month (1-12) and of day (1-31), then the calendar check of date().
strptime(v) ==
    IF v.t # "str" THEN Raise("TypeError")
    ELSE LET f == SplitDash(v.s)
         IN  IF Len(f) # 3 THEN Raise("ValueError")
             ELSE IF ~(AllDigits(f[1]) /\ AllDigits(f[2]) /\ AllDigits(f[3]))
             THEN Raise("ValueError")
             ELSE IF Len(f[1]) # 4 \/ Len(f[2]) \notin 1..2 \/ Len(f[3]) \notin 1..2
             THEN Raise("ValueError")
             ELSE LET y == ParseInt(f[1])
                      m == ParseInt(f[2])
                      d == ParseInt(f[3])
                  IN  IF y < 1 \/ m \notin 1..12 \/ d \notin 1..DaysInMonth(y, m)
                      THEN Raise("ValueError")
                      ELSE Ret([year |-> y, month |-> m, day |-> d])

\* Python truthiness of an argument value
Truthy(v) ==
    CASE v.t = "none" -> FALSE
      [] v.t = "int"  -> v.i # 0
      [] v.t = "str"  -> v.s # <<>>
      [] OTHER        -> TRUE

\* str.strip(): leading and trailing whitespace removed
RECURSIVE LStrip(_)
LStrip(s) == IF s # <<>> /\ Head(s) = " " THEN LStrip(Tail(s)) ELSE s

RECURSIVE RStrip(_)
RStrip(s) ==
    IF s # <<>> /\ s[Len(s)] = " " THEN RStrip(SubSeq(s, 1, Len(s) - 1)) ELSE s

Strip(v) == IF v.t # "str" THEN Raise("AttributeError") ELSE Ret(RStrip(LStrip(v.s)))

ErrorDict_KindOnly(kind, msg) == [error |-> kind]

ErrorDict(kind, msg) == [error |-> kind, message |-> msg]

(***************************************************************************)
(* Tool handlers                                                           *)
(***************************************************************************)
handle_calculate_life_path(birth_date) ==
    LET parsed == strptime(birth_date)
    IN  IF parsed.ok THEN Ret([life_path_number |-> calculate_life_path(parsed.val)])
        ELSE IF parsed.exc = "ValueError"
        THEN Ret(ErrorDict("InvalidDate", "Invalid date format"))
        ELSE Ret(ErrorDict("CalculationError", "Unable to calculate Life Path number"))

handle_calculate_expression_NoValidation(full_name) ==
    LET stripped == Strip(full_name)
    IN  IF ~stripped.ok
        THEN Ret(ErrorDict("CalculationError", "Unable to calculate Expression number"))
        ELSE LET result == calculate_expression_number(full_name.s)
             IN  IF result.ok THEN Ret([expression_number |-> result.val])
                 ELSE Ret(ErrorDict("CalculationError",
                                    "Unable to calculate Expression number"))

handle_calculate_expression(full_name) ==
    IF ~Truthy(full_name)
    THEN Ret(ErrorDict("InvalidName", "Please provide your full name"))
    ELSE LET stripped == Strip(full_name)
         IN  IF ~stripped.ok
             THEN Ret(ErrorDict("CalculationError", "Unable to calculate Expression number"))
             ELSE IF stripped.val = <<>>
             THEN Ret(ErrorDict("InvalidName", "Please provide your full name"))
             ELSE LET result == calculate_expression_number(full_name.s)
                  IN  IF result.ok THEN Ret([expression_number |-> result.val])
                      ELSE Ret(ErrorDict("CalculationError",
                                         "Unable to calculate Expression number"))

handle_calculate_soul_urge(full_name) ==
    IF ~Truthy(full_name)
    THEN Ret(ErrorDict("InvalidName", "Please provide your full name"))
    ELSE LET stripped == Strip(full_name)
         IN  IF ~stripped.ok
             THEN Ret(ErrorDict("CalculationError", "Unable to calculate Soul Urge number"))
             ELSE IF stripped.val = <<>>
             THEN Ret(ErrorDict("InvalidName", "Please provide your full name"))
             ELSE LET result == calculate_soul_urge_number(full_name.s)
                  IN  IF result.ok THEN Ret([soul_urge_number |-> result.val])
                      ELSE Ret(ErrorDict("CalculationError",
                                         "Unable to calculate Soul Urge number"))

\* The interpretation table: rows (number_type, number_value, category).
W_life_path == <<"l", "i", "f", "e", "_", "p", "a", "t", "h">>

W_personality == <<"p", "e", "r", "s", "o", "n", "a", "l", "i", "t", "y">>

W_strengths == <<"s", "t", "r", "e", "n", "g", "t", "h", "s">>

InterpretationRows ==
    { [number_type |-> W_life_path, number_value |-> 1, category |-> W_personality],
      [number_type |-> W_life_path, number_value |-> 1, category |-> W_strengths],
      [number_type |-> W_life_path, number_value |-> 11, category |-> W_personality] }

\* db_ok: whether the storage session and the query succeed.  A value of
\* the wrong type never matches a row.
handle_get_interpretation(number_type, number_value, category, db_ok) ==
    IF ~db_ok
    THEN Ret(ErrorDict("DatabaseError", "Unable to retrieve interpretations"))
    ELSE Ret([interpretations |->
                { r \in InterpretationRows :
                    /\ number_type = StrV(r.number_type)
                    /\ number_value = IntV(r.number_value)
                    /\ (Truthy(category) =>
                          category = StrV(r.category)) }])

\* arguments[key]: TypeError when arguments is not a map, KeyError when the
\* key is absent.
GetItem_Get(arguments, key) ==
    IF arguments.t # "dict" THEN Raise("TypeError")
    ELSE IF key \notin DOMAIN arguments.m THEN Ret(None)
    ELSE Ret(arguments.m[key])

GetItem(arguments, key) ==
    IF arguments.t # "dict" THEN Raise("TypeError")
    ELSE IF key \notin DOMAIN arguments.m THEN Raise("KeyError")
    ELSE Ret(arguments.m[key])

\* arguments.get(key)
GetOrNone(arguments, key) ==
    IF key \in DOMAIN arguments.m THEN arguments.m[key] ELSE None

\* The routing part of handle_numerology_function (the body of its try).
Route_HandlerTable(function_name, arguments, db_ok) ==
    CASE function_name = "calculate_life_path" ->
            LET a == GetItem(arguments, "birth_date")
            IN  IF a.ok THEN handle_calculate_life_path(a.val) ELSE a
      [] function_name = "calculate_expression_number" ->
            LET a == GetItem(arguments, "full_name")
            IN  IF a.ok THEN handle_calculate_expression(a.val) ELSE a
      [] function_name = "calculate_soul_urge_number" ->
            LET a == GetItem(arguments, "full_name")
            IN  IF a.ok THEN handle_calculate_soul_urge(a.val) ELSE a
      [] function_name = "get_numerology_interpretation" ->
            LET a == GetItem(arguments, "number_type")
                b == GetItem(arguments, "number_value")
            IN  IF ~a.ok THEN a
                ELSE IF ~b.ok THEN b
                ELSE handle_get_interpretation(a.val, b.val,
                                               GetOrNone(arguments, "category"), db_ok)
      [] OTHER -> Raise("KeyError")

Route(function_name, arguments, db_ok) ==
    CASE function_name = "calculate_life_path" ->
            LET a == GetItem(arguments, "birth_date")
            IN  IF a.ok THEN handle_calculate_life_path(a.val) ELSE a
      [] function_name = "calculate_expression_number" ->
            LET a == GetItem(arguments, "full_name")
            IN  IF a.ok THEN handle_calculate_expression(a.val) ELSE a
      [] function_name = "calculate_soul_urge_number" ->
            LET a == GetItem(arguments, "full_name")
            IN  IF a.ok THEN handle_calculate_soul_urge(a.val) ELSE a
      [] function_name = "get_numerology_interpretation" ->
            LET a == GetItem(arguments, "number_type")
                b == GetItem(arguments, "number_value")
            IN  IF ~a.ok THEN a
                ELSE IF ~b.ok THEN b
                ELSE handle_get_interpretation(a.val, b.val,
                                               GetOrNone(arguments, "category"), db_ok)
      [] OTHER -> Ret(ErrorDict("UnknownFunction", "Function not found"))

handle_numerology_function_NoCatchAll(function_name, arguments, db_ok) ==
    LET r == Route(function_name, arguments, db_ok)
    IN  IF r.ok THEN r
        ELSE IF r.exc = "KeyError"
        THEN Ret(ErrorDict("MissingArgument", "Missing required parameter"))
        ELSE r

handle_numerology_function(function_name, arguments, db_ok) ==
    LET r == Route(function_name, arguments, db_ok)
    IN  IF r.ok THEN r
        ELSE IF r.exc = "KeyError"
        THEN Ret(ErrorDict("MissingArgument", "Missing required parameter"))
        ELSE Ret(ErrorDict("HandlerError", "Unable to process function call"))

(***************************************************************************)
(* Dispatch of tool calls: the inputs tried                                *)
(***************************************************************************)
D_1990_05_15 == <<"1", "9", "9", "0", "-", "0", "5", "-", "1", "5">>

D_1984_11_02 == <<"1", "9", "8", "4", "-", "1", "1", "-", "0", "2">>

D_1990_02_30 == <<"1", "9", "9", "0", "-", "0", "2", "-", "3", "0">>

D_1990_13_01 == <<"1", "9", "9", "0", "-", "1", "3", "-", "0", "1">>

D_slashes == <<"1", "5", "/", "0", "5", "/", "1", "9", "9", "0">>

N_John == <<"J", "o", "h", "n">>

N_Mary_Ann == <<"M", "A", "R", "Y", " ", "A", "n", "n">>

N_Dan == <<"Dstroke", "a", "n">>

N_digits == <<"1", "2">>

ArgVals ==
    { None, IntV(0), IntV(1), IntV(999),
      StrV(<<>>), StrV(<<" ", " ">>),
      StrV(D_1990_05_15), StrV(D_1984_11_02), StrV(D_1990_02_30), StrV(D_1990_13_01),
      StrV(D_slashes), StrV(N_John), StrV(N_Mary_Ann), StrV(N_Dan), StrV(N_digits),
      StrV(W_life_path), StrV(W_personality) }

FunctionNames ==
    { "calculate_life_path", "calculate_expression_number",
      "calculate_soul_urge_number", "get_numerology_interpretation",
      "unknown_function" }

KeySets ==
    { {}, {"birth_date"}, {"full_name"}, {"wrong_key"}, {"number_type"},
      {"number_value"}, {"number_type", "number_value"},
      {"number_type", "number_value", "category"} }

\* The argument maps tried, and an arguments value that is not a map.
ArgumentsTried == { DictV(m) : m \in UNION { [K -> ArgVals] : K \in KeySets } } \cup { None }

NoCall == [name |-> "-"]

NoOutcome == [ok |-> FALSE, exc |-> "-"]

\* No tool call dispatched yet.
IdleDispatch ==
    /\ fn_call = NoCall
    /\ fn_outcome = NoOutcome

\* A pipeline that has added no message yet, over an empty message table.
IdleSave ==
    /\ now = 1
    /\ context = <<>>
    /\ tasks = <<>>
    /\ messages = {}

\* Nothing formatted yet.
IdleFmt ==
    /\ fmt_in = <<>>
    /\ fmt_out = [kind |-> "-"]

\* No conversation, request or cache entry.
IdleEnd ==
    /\ db_convs = <<>>
    /\ cache = <<>>
    /\ wseq = 0
    /\ rooms = {}
    /\ ereq = <<>>
    /\ greq = <<>>
    /\ hist = <<>>

\* No start request and no pipeline.
IdleStart ==
    /\ settings = <<>>
    /\ sreq = <<>>
    /\ bots = <<>>
    /\ loop = <<>>

InitDispatch == IdleDispatch /\ IdleSave /\ IdleFmt /\ IdleEnd /\ IdleStart

\* One tool call of the reasoning step, dispatched through the router.
Dispatch ==
    /\ fn_call = NoCall
    /\ \E name \in FunctionNames, arguments \in ArgumentsTried, db_ok \in BOOLEAN :
           /\ fn_call' = [name |-> name, arguments |-> arguments, db_ok |-> db_ok]
           /\ fn_outcome' = handle_numerology_function(name, arguments, db_ok)
    /\ UNCHANGED <<now, context, tasks, messages, fmtVars, endVars, startVars>>

NextDispatch == Dispatch

SpecDispatch == InitDispatch /\ [][NextDispatch]_vars

ResultKeySets ==
    { {"error", "message"}, {"life_path_number"}, {"expression_number"},
      {"soul_urge_number"}, {"interpretations"} }

\* C1: handle_numerology_function returns a structured dict (an error
\* result or a success result) for every tool name and every argument map
\* or non-map, whatever the engine and the interpretation store do; it never
\* raises.
C1_DispatchNeverRaises ==
    fn_call # NoCall =>
        /\ fn_outcome.ok
        /\ DOMAIN fn_outcome.val \in ResultKeySets

\* C1 witness: a call whose arguments are not a map and a call whose engine
\* calculation fails have each been answered.
C1_Witness ==
    /\ fn_call # NoCall
    /\ fn_call.name = "calculate_expression_number"
    /\ fn_call.arguments = DictV([k \in {"full_name"} |-> StrV(N_Dan)])
    /\ fn_outcome.ok
    /\ fn_outcome.val.error = "CalculationError"

(***************************************************************************)
(* Message persistence: add_message_with_save and _save_message_async      *)
(***************************************************************************)
MaxClock == 3

MaxMessages == 2

\* The conversation whose pipeline is modelled.
PipelineConv == "c1"

MessageRoles == {"user", "assistant", "system"}

\* The content of a message is the sequence of its words; <<>> is "".
MessageContents == {<<>>, <<"hi">>}

\* Which role a message is saved under, or "-" when no save is dispatched
\* (the two branches of add_message_with_save).
SaveRoleOf_AnyRole(message) ==
    IF message.role = "assistant" /\ message.content # <<>> THEN "ASSISTANT"
    ELSE IF message.content # <<>> THEN "USER"
    ELSE "-"

SaveRoleOf(message) ==
    IF message.role = "user" /\ message.content # <<>> THEN "USER"
    ELSE IF message.role = "assistant" /\ message.content # <<>> THEN "ASSISTANT"
    ELSE "-"

\* How _save_message_async ends for an exception raised inside it:
\* "db" is raised in _db_save (caught there and logged), "pool" by
\* asyncio.to_thread (caught by the outer handler and logged).  st is the
\* final state of the task, "unhandled" when the exception leaves the
\* coroutine.
SaveFailure_PoolUncaught(exc) ==
    IF exc = "db" THEN [st |-> "logged", logged |-> TRUE]
    ELSE [st |-> "unhandled", logged |-> FALSE]

SaveFailure(exc) ==
    IF exc = "db" THEN [st |-> "logged", logged |-> TRUE]
    ELSE [st |-> "logged", logged |-> TRUE]

\* add_message_with_save(message): the original add_message first, then the
\* fire-and-forget task for a user or assistant message with content.
AddMessage ==
    /\ Len(context) < MaxMessages
    /\ \E role \in MessageRoles, content \in MessageContents :
         LET message == [role |-> role, content |-> content]
         IN  /\ context' = Append(context, message)
             /\ tasks' = IF SaveRoleOf(message) = "-" THEN tasks
                         ELSE Append(tasks, [seq |-> Len(context) + 1,
                                             role |-> SaveRoleOf(message),
                                             content |-> content,
                                             st |-> "created", ts |-> 0,
                                             logged |-> FALSE])
    /\ UNCHANGED <<now, messages>>

\* The event loop runs the first step of a task, in creation order: the
\* coroutine hands _db_save to the thread pool, or the pool raises.
StartSave(k) ==
    /\ tasks[k].st = "created"
    /\ \A j \in 1..(k - 1) : tasks[j].st # "created"
    /\ \E pool_ok \in BOOLEAN :
         tasks' = [tasks EXCEPT ![k] =
                     IF pool_ok THEN [@ EXCEPT !.st = "in_thread"]
                     ELSE [@ EXCEPT !.st = SaveFailure("pool").st,
                                    !.logged = SaveFailure("pool").logged]]
    /\ UNCHANGED <<now, context, messages>>

\* The worker thread opens its own session and builds the row: the
\* timestamp is read from the clock here.
SaveStamp(k) ==
    /\ tasks[k].st = "in_thread"
    /\ \E db_ok \in BOOLEAN :
         tasks' = [tasks EXCEPT ![k] =
                     IF db_ok THEN [@ EXCEPT !.st = "stamped", !.ts = now]
                     ELSE [@ EXCEPT !.st = SaveFailure("db").st,
                                    !.logged = SaveFailure("db").logged]]
    /\ UNCHANGED <<now, context, messages>>

\* session.add(message); session.commit()
SaveCommit_SharedSession(k) ==
    /\ tasks[k].st = "stamped"
    /\ \E db_ok \in BOOLEAN :
         IF db_ok
         THEN /\ tasks' = [tasks EXCEPT ![k].st = "saved"]
              /\ messages' = messages \cup
                    { [conv |-> PipelineConv, seq |-> tasks[j].seq,
                       role |-> tasks[j].role, content |-> tasks[j].content,
                       timestamp |-> tasks[j].ts] :
                      j \in { i \in DOMAIN tasks : tasks[i].st = "stamped" } }
         ELSE /\ tasks' = [tasks EXCEPT ![k].st = SaveFailure("db").st,
                                        ![k].logged = SaveFailure("db").logged]
              /\ UNCHANGED messages
    /\ UNCHANGED <<now, context>>

SaveCommit(k) ==
    /\ tasks[k].st = "stamped"
    /\ \E db_ok \in BOOLEAN :
         IF db_ok
         THEN /\ tasks' = [tasks EXCEPT ![k].st = "saved"]
              /\ messages' = messages \cup
                    {[conv |-> PipelineConv, seq |-> tasks[k].seq,
                      role |-> tasks[k].role, content |-> tasks[k].content,
                      timestamp |-> tasks[k].ts]}
         ELSE /\ tasks' = [tasks EXCEPT ![k].st = SaveFailure("db").st,
                                        ![k].logged = SaveFailure("db").logged]
              /\ UNCHANGED messages
    /\ UNCHANGED <<now, context>>

Tick ==
    /\ now < MaxClock
    /\ now' = now + 1
    /\ UNCHANGED <<context, tasks, messages>>

InitSave == IdleSave /\ IdleDispatch /\ IdleFmt /\ IdleEnd /\ IdleStart

NextSave ==
    \/ AddMessage /\ UNCHANGED <<dispatchVars, fmtVars, endVars, startVars>>
    \/ (\E k \in DOMAIN tasks : StartSave(k)) /\ UNCHANGED <<dispatchVars, fmtVars, endVars, startVars>>
    \/ (\E k \in DOMAIN tasks : SaveStamp(k)) /\ UNCHANGED <<dispatchVars, fmtVars, endVars, startVars>>
    \/ (\E k \in DOMAIN tasks : SaveCommit(k)) /\ UNCHANGED <<dispatchVars, fmtVars, endVars, startVars>>
    \/ Tick /\ UNCHANGED <<dispatchVars, fmtVars, endVars, startVars>>

SpecSave == InitSave /\ [][NextSave]_vars

\* C2: a failed save (a storage error in the worker, or a thread-pool
\* error) is caught and logged, no exception leaves the save task, and the
\* message of every save task, failed or not, is in the running context.
C2_SaveFailureIsolated ==
    \A k \in DOMAIN tasks :
        /\ tasks[k].st # "unhandled"
        /\ tasks[k].st = "logged" => tasks[k].logged
        /\ tasks[k].seq \in DOMAIN context
        /\ context[tasks[k].seq].content = tasks[k].content

\* C2 witness: one save failed in the thread pool, another in storage, and
\* both messages are in the running context.
C2_Witness ==
    /\ Len(tasks) = 2
    /\ tasks[1].st = "logged" /\ tasks[1].ts = 0
    /\ tasks[2].st = "logged" /\ tasks[2].ts # 0
    /\ Len(context) = 2

\* C3: for two persisted messages of one conversation, the one added to
\* the running context first does not carry the later timestamp.
C3_TimestampsFollowPipelineOrder ==
    \A r1, r2 \in messages :
        (r1.conv = r2.conv /\ r1.seq < r2.seq) => r1.timestamp <= r2.timestamp

(***************************************************************************)
(* Token-budgeted formatting of conversation summaries                     *)
(*                                                                         *)
(* A text field of a summary is a record [s |-> what it says, len |-> its  *)
(* number of characters].  A formatted context is one of                   *)
(*   [kind |-> "empty"]                      the empty string              *)
(*   [kind |-> "full", entries |-> <<..>>]   the header and one line per   *)
(*                                           summary                       *)
(*   [kind |-> "minimal", n |-> k]           the one-line fallback         *)
(***************************************************************************)
Txt(s, len) == [s |-> s, len |-> len]

NoTxt == Txt("", 0)

EmptyText == [kind |-> "empty"]

\* max_tokens=500 at the call in get_conversation_context_cached
MAX_TOKENS == 500

\* insights[:100]
INSIGHTS_CHARS == 100

\* len("Previous conversations with this user:")
HEADER_CHARS == 38

\* len("Nov 23") = len("Recent"): the "%b %d" date and its fallback
DATE_CHARS == 6

\* len(" Discussed numbers: ") and the closing "."
NUMBERS_LABEL_CHARS == 21

\* len(" Key insight: ")
INSIGHT_LABEL_CHARS == 14

\* len("User has ") + len(" previous conversations about numerology.")
MINIMAL_CHARS == 50

\* len(str(n)) for n >= 0
RECURSIVE DecimalDigits(_)
DecimalDigits(n) == IF n < 10 THEN 1 ELSE 1 + DecimalDigits(n \div 10)

Min(a, b) == IF a <= b THEN a ELSE b

\* text[:n]
Truncate(text, n) == Txt(text.s, Min(text.len, n))

\* One line of _format_conversations: f"{i}. {date_str}: {topic}." and the
\* optional numbers and insight parts.
FormatEntry(i, conv) ==
    [i |-> i, date |-> conv.date, topic |-> conv.topic,
     numbers |-> conv.numbers,
     insights |-> Truncate(conv.insights, INSIGHTS_CHARS)]

EntryLen(e) ==
    DecimalDigits(e.i) + 2 + DATE_CHARS + 2 + e.topic.len + 1
    + (IF e.numbers.len > 0 THEN NUMBERS_LABEL_CHARS + e.numbers.len ELSE 0)
    + (IF e.insights.len > 0 THEN INSIGHT_LABEL_CHARS + e.insights.len ELSE 0)

\* _format_conversations(convs)
FormatConversations(convs) ==
    [kind |-> "full", entries |-> [i \in DOMAIN convs |-> FormatEntry(i, convs[i])]]

RECURSIVE SumEntryLens(_)
SumEntryLens(entries) ==
    IF entries = <<>> THEN 0
    ELSE 1 + EntryLen(Head(entries)) + SumEntryLens(Tail(entries))

\* len(text): the lines are joined by "\n"
TextLen(text) ==
    CASE text.kind = "empty"   -> 0
      [] text.kind = "full"    -> HEADER_CHARS + SumEntryLens(text.entries)
      [] text.kind = "minimal" -> MINIMAL_CHARS + DecimalDigits(text.n)

\* count_tokens(text), by its estimate of four characters per token
count_tokens(text) == TextLen(text) \div 4

\* The first of the most-recent-first prefixes of length n, n-1, .. 1 whose
\* formatting is within max_tokens; the minimal context when none is.
RECURSIVE FormatReduced(_, _, _)
FormatReduced_NoRetry(conversations, n, max_tokens) ==
    LET ctx == FormatConversations(SubSeq(conversations, 1, n))
    IN  IF n = Len(conversations) /\ count_tokens(ctx) <= max_tokens THEN ctx
        ELSE [kind |-> "minimal", n |-> Len(conversations)]

FormatReduced(conversations, n, max_tokens) ==
    IF n = 0 THEN [kind |-> "minimal", n |-> Len(conversations)]
    ELSE LET ctx == FormatConversations(SubSeq(conversations, 1, n))
         IN  IF count_tokens(ctx) <= max_tokens THEN ctx
             ELSE FormatReduced(conversations, n - 1, max_tokens)

format_conversation_history_NoBudget(conversations, max_tokens) ==
    IF conversations = <<>> THEN EmptyText
    ELSE FormatConversations(conversations)

format_conversation_history(conversations, max_tokens) ==
    IF conversations = <<>> THEN EmptyText
    ELSE FormatReduced(conversations, Len(conversations), max_tokens)

\* Summaries tried: short, long and over-long topics, with and without
\* numbers and insights.
MaxFmtConvs == 3

FmtTopics == { Txt("Life Path Number", 16), Txt("long topic", 880), Txt("huge topic", 2500) }

FmtNumbers == { NoTxt, Txt("1, 11", 5) }

FmtInsights == { NoTxt, Txt("long insight", 150) }

FmtSummaries ==
    [date : {1}, topic : FmtTopics, numbers : FmtNumbers, insights : FmtInsights]

InitFmt ==
    /\ IdleDispatch /\ IdleSave /\ IdleEnd /\ IdleStart
    /\ fmt_in \in UNION { [1..n -> FmtSummaries] : n \in 0..MaxFmtConvs }
    /\ fmt_out = [kind |-> "-"]

Format ==
    /\ fmt_out.kind = "-"
    /\ fmt_out' = format_conversation_history(fmt_in, MAX_TOKENS)
    /\ UNCHANGED <<fmt_in, dispatchVars, now, context, tasks, messages, endVars, startVars>>

NextFmt == Format

SpecFmt == InitFmt /\ [][NextFmt]_vars

\* C9: whatever the list of summaries, the text returned by
\* format_conversation_history counts at most MAX_TOKENS tokens.
C9_WithinTokenBudget ==
    fmt_out.kind # "-" => count_tokens(fmt_out) <= MAX_TOKENS

\* C9 witness: a list whose full formatting is over the budget has been
\* formatted, by dropping the oldest summary.
C9_Witness ==
    /\ fmt_out.kind = "full"
    /\ Len(fmt_out.entries) < Len(fmt_in)
    /\ count_tokens(FormatConversations(fmt_in)) > MAX_TOKENS

(***************************************************************************)
(* Storage rows, summaries and the recent conversations of a user          *)
(***************************************************************************)
Users == {"u1", "u2"}

ConvIds == {"c0", "c1", "c2"}

\* NULL of a timestamp or duration column; the clock starts above it.
Null == 0

\* A text whose characters are known
T(s) == Txt(s, Len(s))

\* " ".join(words)
RECURSIVE JoinWords(_)
JoinWords(words) ==
    IF words = <<>> THEN ""
    ELSE IF Len(words) = 1 THEN words[1]
    ELSE words[1] \o " " \o JoinWords(Tail(words))

\* keyword in all_content, on whole words
Contains(keyword, content) ==
    \E i \in 0..(Len(content) - Len(keyword)) :
        SubSeq(content, i + 1, i + Len(keyword)) = keyword

\* topic_keywords, in the order of the dict
TOPIC_KEYWORDS ==
    << [topic |-> "Life Path Number",
        keywords |-> {<<"life", "path">>, <<"so_duong_doi">>, <<"life", "path", "number">>}],
       [topic |-> "Expression Number",
        keywords |-> {<<"expression", "number">>, <<"so_bieu_hien">>, <<"expression">>}],
       [topic |-> "Soul Urge Number",
        keywords |-> {<<"soul", "urge">>, <<"so_khat_khao">>, <<"soul">>}],
       [topic |-> "Birthday Number",
        keywords |-> {<<"birthday", "number">>, <<"sinh_nhat">>, <<"birthday">>}],
       [topic |-> "Personal Year",
        keywords |-> {<<"personal", "year">>, <<"nam_ca_nhan">>, <<"this", "year">>}] >>

\* The words matched by r'\b([1-9]|11|22|33)\b', in increasing order
NUMBER_WORDS == <<"1", "2", "3", "4", "5", "6", "7", "8", "9", "11", "22", "33">>

\* The rows in ascending order of timestamp (rows of one timestamp in the
\* order of their creation)
RECURSIVE SortedByTimestamp(_)
SortedByTimestamp(rows) ==
    IF rows = {} THEN <<>>
    ELSE LET first == CHOOSE r \in rows :
                        \A q \in rows : \/ r.timestamp < q.timestamp
                                        \/ (r.timestamp = q.timestamp /\ r.seq <= q.seq)
         IN  <<first>> \o SortedByTimestamp(rows \ {first})

RECURSIVE ContentsOf(_, _)
ContentsOf(rows, role) ==
    IF rows = <<>> THEN <<>>
    ELSE (IF Head(rows).role = role THEN <<Head(rows).content>> ELSE <<>>)
         \o ContentsOf(Tail(rows), role)

RECURSIVE Flatten(_)
Flatten(contents) ==
    IF contents = <<>> THEN <<>> ELSE Head(contents) \o Flatten(Tail(contents))

RECURSIVE DetectTopic(_, _)
DetectTopic(all_content, i) ==
    IF i > Len(TOPIC_KEYWORDS) THEN "General numerology discussion"
    ELSE IF \E k \in TOPIC_KEYWORDS[i].keywords : Contains(k, all_content)
    THEN TOPIC_KEYWORDS[i].topic
    ELSE DetectTopic(all_content, i + 1)

\* ", ".join(sorted(numbers_found, key=int))
RECURSIVE JoinNumbers(_, _)
JoinNumbers(all_content, i) ==
    IF i > Len(NUMBER_WORDS) THEN ""
    ELSE LET rest == JoinNumbers(all_content, i + 1)
         IN  IF NUMBER_WORDS[i] \notin Range(all_content) THEN rest
             ELSE IF rest = "" THEN NUMBER_WORDS[i]
             ELSE NUMBER_WORDS[i] \o ", " \o rest

\* first_message[:200]
KEY_INSIGHT_CHARS == 200

DefaultSummary ==
    [main_topic |-> T("General discussion"), key_insights |-> NoTxt,
     numbers_discussed |-> NoTxt]

\* generate_conversation_summary(conversation_id): read with a session of
\* its own; every error yields the default summary.
generate_conversation_summary(conversation_id, db_ok) ==
    LET rows == SortedByTimestamp({ r \in messages : r.conv = conversation_id })
        user_messages == ContentsOf(rows, "USER")
        assistant_messages == ContentsOf(rows, "ASSISTANT")
        all_content == Flatten(user_messages \o assistant_messages)
    IN  IF ~db_ok \/ rows = <<>> THEN DefaultSummary
        ELSE [main_topic |-> T(DetectTopic(all_content, 1)),
              key_insights |->
                  IF assistant_messages = <<>> THEN NoTxt
                  ELSE Truncate(T(JoinWords(assistant_messages[1])), KEY_INSIGHT_CHARS),
              numbers_discussed |-> T(JoinNumbers(all_content, 1))]

\* limit=5 at the call in get_conversation_context_cached
RECENT_LIMIT == 5

\* The ids in descending order of started_at
RECURSIVE SortedByStartDesc(_)
SortedByStartDesc(ids) ==
    IF ids = {} THEN <<>>
    ELSE LET first == CHOOSE c \in ids :
                        \A q \in ids : db_convs[c].started_at >= db_convs[q].started_at
         IN  <<first>> \o SortedByStartDesc(ids \ {first})

\* x or default
OrDefault(text, default) == IF text.len = 0 THEN default ELSE text

\* get_recent_conversations(user_id, limit): the completed conversations
\* of the user, most recent first; the empty list on a storage error.
get_recent_conversations_AnyStatus(user_id, limit, db_ok) ==
    LET ids == SortedByStartDesc({ c \in DOMAIN db_convs :
                                     db_convs[c].user_id = user_id })
        results == SubSeq(ids, 1, Min(Len(ids), limit))
    IN  IF ~db_ok THEN <<>>
        ELSE [i \in DOMAIN results |->
                [date |-> db_convs[results[i]].started_at,
                 topic |-> OrDefault(db_convs[results[i]].main_topic, T("General discussion")),
                 insights |-> db_convs[results[i]].key_insights,
                 numbers |-> db_convs[results[i]].numbers_discussed]]

get_recent_conversations(user_id, limit, db_ok) ==
    LET ids == SortedByStartDesc({ c \in DOMAIN db_convs :
                                     /\ db_convs[c].user_id = user_id
                                     /\ db_convs[c].ended_at # Null })
        results == SubSeq(ids, 1, Min(Len(ids), limit))
    IN  IF ~db_ok THEN <<>>
        ELSE [i \in DOMAIN results |->
                [date |-> db_convs[results[i]].started_at,
                 topic |-> OrDefault(db_convs[results[i]].main_topic, T("General discussion")),
                 insights |-> db_convs[results[i]].key_insights,
                 numbers |-> db_convs[results[i]].numbers_discussed]]

\* Conversation.calculate_duration() once ended_at is set to an aware
\* datetime: the subtraction raises on a naive started_at.
calculate_duration_SinceEpoch(conv, ended_at) ==
    IF conv.started_naive THEN Raise("TypeError")
    ELSE Ret(ended_at)

calculate_duration(conv, ended_at) ==
    IF conv.started_naive THEN Raise("TypeError")
    ELSE Ret(ended_at - conv.started_at)

(***************************************************************************)
(* The context cache: get_conversation_context_cached and                  *)
(* invalidate_conversation_context_cache                                   *)
(*                                                                         *)
(* A get runs in the process of a pipeline; its three calls (redis.get,    *)
(* the query for the recent conversations, redis.set) are separate steps   *)
(* that end requests and other gets can come between. hist records, for    *)
(* the properties only, how often a conversation was committed and         *)
(* invalidated, which conversations an end request has completed, and the  *)
(* last stamp written to the cache when a user's entry was invalidated.    *)
(***************************************************************************)
GetIds == {"g1", "g2"}

EndIds == {"e1", "e2"}

NoEntry == [stamp |-> 0]

\* ex=1800 at redis.set
CACHE_TTL == 1800

IdleGet == [pc |-> "idle"]

\* The except clause of get_conversation_context_cached: the error is
\* logged and the empty string returned.
OnGetError_Reraise(exc) == Raise(exc)

OnGetError(exc) == Ret(EmptyText)

\* redis.delete(cache_key) inside the try of the invalidation: the entry is
\* gone when the store answers, and kept when the call fails.
InvalidatedCache_NoDelete(entries, user_id, redis_ok) == entries

InvalidatedCache(entries, user_id, redis_ok) ==
    IF redis_ok THEN [entries EXCEPT ![user_id] = NoEntry] ELSE entries

\* cached = redis.get(cache_key); a hit returns it, a store error ends the
\* call, anything falsy (no entry, or the empty string) is a miss.
GetCheck(g) ==
    /\ greq[g].pc = "idle"
    /\ \E user_id \in Users, redis_ok \in BOOLEAN :
         LET seen == [ended |-> { c \in hist.ended : db_convs[c].user_id = user_id },
                      inval_any |-> hist.inval_any[user_id],
                      inval_ok |-> hist.inval_ok[user_id]]
             cached == cache[user_id]
         IN  greq' = [greq EXCEPT ![g] =
                IF ~redis_ok
                THEN [pc |-> "done", user_id |-> user_id, how |-> "error",
                      out |-> OnGetError("ConnectionError"), seen |-> seen]
                ELSE IF cached # NoEntry /\ cached.text.kind # "empty"
                THEN [pc |-> "done", user_id |-> user_id, how |-> "hit",
                      out |-> Ret(cached.text), stamp |-> cached.stamp, seen |-> seen]
                ELSE [pc |-> "missed", user_id |-> user_id, seen |-> seen]]
    /\ UNCHANGED <<db_convs, cache, wseq, rooms, ereq, hist>>

\* conversations = await get_recent_conversations(user_id, limit=5)
\* context = format_conversation_history(conversations, max_tokens=500)
GetCompute(g) ==
    /\ greq[g].pc = "missed"
    /\ \E db_ok \in BOOLEAN :
         greq' = [greq EXCEPT ![g] =
            [pc |-> "computed", user_id |-> @.user_id, seen |-> @.seen,
             db_ok |-> db_ok,
             context |-> format_conversation_history(
                             get_recent_conversations(@.user_id, RECENT_LIMIT, db_ok),
                             MAX_TOKENS)]]
    /\ UNCHANGED <<db_convs, cache, wseq, rooms, ereq, hist>>

\* redis.set(cache_key, context, ex=1800); return context
GetStore_OneKeyForAll(g) ==
    /\ greq[g].pc = "computed"
    /\ \E redis_ok \in BOOLEAN :
         IF redis_ok
         THEN /\ cache' = [u \in Users |->
                              [stamp |-> wseq + 1, text |-> greq[g].context,
                               ttl |-> CACHE_TTL]]
              /\ wseq' = wseq + 1
              /\ greq' = [greq EXCEPT ![g] =
                    [pc |-> "done", user_id |-> @.user_id, how |-> "computed",
                     out |-> Ret(@.context), stamp |-> wseq + 1, seen |-> @.seen,
                     db_ok |-> @.db_ok]]
         ELSE /\ greq' = [greq EXCEPT ![g] =
                    [pc |-> "done", user_id |-> @.user_id, how |-> "error",
                     out |-> OnGetError("ConnectionError"), seen |-> @.seen]]
              /\ UNCHANGED <<cache, wseq>>
    /\ UNCHANGED <<db_convs, rooms, ereq, hist>>

GetStore(g) ==
    /\ greq[g].pc = "computed"
    /\ \E redis_ok \in BOOLEAN :
         IF redis_ok
         THEN /\ cache' = [cache EXCEPT ![greq[g].user_id] =
                              [stamp |-> wseq + 1, text |-> greq[g].context,
                               ttl |-> CACHE_TTL]]
              /\ wseq' = wseq + 1
              /\ greq' = [greq EXCEPT ![g] =
                    [pc |-> "done", user_id |-> @.user_id, how |-> "computed",
                     out |-> Ret(@.context), stamp |-> wseq + 1, seen |-> @.seen,
                     db_ok |-> @.db_ok]]
         ELSE /\ greq' = [greq EXCEPT ![g] =
                    [pc |-> "done", user_id |-> @.user_id, how |-> "error",
                     out |-> OnGetError("ConnectionError"), seen |-> @.seen]]
              /\ UNCHANGED <<cache, wseq>>
    /\ UNCHANGED <<db_convs, rooms, ereq, hist>>

\* The time-to-live of an entry runs out.
Expire(user_id) ==
    /\ cache[user_id] # NoEntry
    /\ cache' = [cache EXCEPT ![user_id] = NoEntry]
    /\ UNCHANGED <<db_convs, wseq, rooms, ereq, greq, hist>>

(***************************************************************************)
(* end_conversation                                                        *)
(*                                                                         *)
(* Each request has a session of its own and the handler takes no lock on  *)
(* the row, so requests served by different workers of the API interleave  *)
(* at every call to storage, to the cache store and to the room provider.  *)
(* The summary columns main_topic, key_insights and numbers_discussed are  *)
(* those of the conversation table.                                        *)
(***************************************************************************)
IdleEndReq == [pc |-> "idle"]

\* A request answered with an HTTPException before the cleanup steps
Rejected_AfterCleanup(status) == [pc |-> "done", status |-> status, committed |-> FALSE,
                                  invalidated |-> TRUE, room_call |-> "404"]

Rejected(status) == [pc |-> "done", status |-> status, committed |-> FALSE,
                     invalidated |-> FALSE, room_call |-> "-"]

\* Steps 1 to 5: session.get, the 404, 403 and 400 checks, then ended_at
\* and the duration set on the session's object.
EndCheck(e) ==
    /\ ereq[e].pc = "idle"
    /\ \E user_id \in Users, conversation_id \in ConvIds \cup {"missing"} :
         ereq' = [ereq EXCEPT ![e] =
            IF conversation_id \notin DOMAIN db_convs
            THEN Rejected(404)
            ELSE LET conversation == db_convs[conversation_id]
                     duration == calculate_duration(conversation, now)
                 IN  IF conversation.user_id # user_id
                     THEN Rejected(403)
                     ELSE IF conversation.ended_at # Null
                     THEN Rejected(400)
                     ELSE IF ~duration.ok
                     THEN Rejected(500)
                     ELSE [pc |-> "checked", user_id |-> user_id,
                           conv |-> conversation_id, ended_at |-> now,
                           duration_seconds |-> duration.val]]
    /\ UNCHANGED <<db_convs, cache, wseq, rooms, greq, hist>>

\* Step 5b: summary = await generate_conversation_summary(conversation_id)
EndSummary(e) ==
    /\ ereq[e].pc = "checked"
    /\ \E db_ok \in BOOLEAN :
         ereq' = [ereq EXCEPT ![e] =
            [pc |-> "summarized", summary |-> generate_conversation_summary(@.conv, db_ok)]
            @@ @]
    /\ UNCHANGED <<db_convs, cache, wseq, rooms, greq, hist>>

\* session.commit(); session.refresh(conversation): the row takes the
\* values set on the object. A failing commit ends the request with a
\* rollback and a 500; so does a failing refresh, with the row written.
EndCommit(e) ==
    /\ ereq[e].pc = "summarized"
    /\ \E db \in {"ok", "commit_fails", "refresh_fails"} :
         IF db = "commit_fails"
         THEN /\ ereq' = [ereq EXCEPT ![e] =
                    Rejected(500)]
              /\ UNCHANGED <<db_convs, hist>>
         ELSE /\ db_convs' = [db_convs EXCEPT ![ereq[e].conv] =
                    [@ EXCEPT !.ended_at = ereq[e].ended_at,
                              !.duration_seconds = ereq[e].duration_seconds,
                              !.main_topic = ereq[e].summary.main_topic,
                              !.key_insights = ereq[e].summary.key_insights,
                              !.numbers_discussed = ereq[e].summary.numbers_discussed]]
              /\ hist' = [hist EXCEPT !.commits[ereq[e].conv] = @ + 1]
              /\ ereq' = [ereq EXCEPT ![e] =
                    IF db = "ok" THEN [pc |-> "committed"] @@ @
                    ELSE [committed |-> TRUE] @@ Rejected(500)]
    /\ UNCHANGED <<cache, wseq, rooms, greq>>

\* await invalidate_conversation_context_cache(current_user.id)
EndInvalidate(e) ==
    /\ ereq[e].pc = "committed"
    /\ \E redis_ok \in BOOLEAN :
         /\ cache' = InvalidatedCache(cache, ereq[e].user_id, redis_ok)
         /\ ereq' = [ereq EXCEPT ![e] =
               [pc |-> "invalidated", inval_ok |-> redis_ok] @@ @]
         /\ hist' = [hist EXCEPT
               !.inval_calls[ereq[e].conv] = @ + 1,
               !.inval_any[ereq[e].user_id] = wseq,
               !.inval_ok[ereq[e].user_id] = IF redis_ok THEN wseq ELSE @]
    /\ UNCHANGED <<db_convs, wseq, rooms, greq>>

\* What the room provider answers to the DELETE of a room
RoomResponses_NotFoundWhilePresent(room_name) ==
    {"200", "404", "500", "network", "other"}

RoomResponses(room_name) ==
    (IF room_name \in rooms THEN {"200"} ELSE {"404"}) \cup {"500", "network", "other"}

\* delete_room(room_name): True on a confirmed deletion, False on a 404, on
\* another error status and on a network error; any other exception leaves
\* the function.
delete_room_RaiseForStatusUncaught(response) ==
    CASE response = "200"     -> Ret(TRUE)
      [] response = "404"     -> Raise("HTTPStatusError")
      [] response = "500"     -> Raise("HTTPStatusError")
      [] response = "network" -> Raise("RequestError")
      [] OTHER                -> Raise("Exception")

delete_room(response) ==
    CASE response = "200"     -> Ret(TRUE)
      [] response = "404"     -> Ret(FALSE)
      [] response = "500"     -> Ret(FALSE)
      [] response = "network" -> Ret(FALSE)
      [] OTHER                -> Raise("Exception")

\* Step 6 and 7: the try around delete_room logs whatever it raises, and
\* the response is the success response.
StatusAfterRoomCleanup_NoTry(deleted) == IF deleted.ok THEN 200 ELSE 500

StatusAfterRoomCleanup(deleted) == 200

EndDeleteRoom(e) ==
    /\ ereq[e].pc = "invalidated"
    /\ LET room_name == db_convs[ereq[e].conv].daily_room_id
       IN  IF room_name # ""
           THEN \E response \in RoomResponses(room_name) :
                  /\ rooms' = IF response = "200" THEN rooms \ {room_name} ELSE rooms
                  /\ ereq' = [ereq EXCEPT ![e] =
                        [pc |-> "done", committed |-> TRUE, invalidated |-> TRUE,
                         room_call |-> response, deleted |-> delete_room(response),
                         status |-> StatusAfterRoomCleanup(delete_room(response))] @@ @]
                  /\ hist' = [hist EXCEPT !.ended =
                        IF StatusAfterRoomCleanup(delete_room(response)) = 200
                        THEN @ \cup {ereq[e].conv} ELSE @]
           ELSE /\ ereq' = [ereq EXCEPT ![e] =
                        [pc |-> "done", committed |-> TRUE, invalidated |-> TRUE,
                         room_call |-> "-", status |-> 200] @@ @]
                /\ hist' = [hist EXCEPT !.ended = @ \cup {ereq[e].conv}]
                /\ UNCHANGED rooms
    /\ UNCHANGED <<db_convs, cache, wseq, greq>>

\* Two users; u1 has a completed conversation c0 and an open one c1, whose
\* room exists or was never created; c2 is a completed conversation of u2.
\* The messages of c1 are stored; the clock stands after every start.
InitStore ==
    /\ IdleDispatch
    /\ IdleFmt
    /\ now = 2
    /\ context = <<>>
    /\ tasks = <<>>
    /\ messages =
         { [conv |-> "c1", seq |-> 1, role |-> "USER", timestamp |-> 1,
            content |-> <<"what", "is", "my", "life", "path">>],
           [conv |-> "c1", seq |-> 2, role |-> "ASSISTANT", timestamp |-> 2,
            content |-> <<"your", "life", "path", "is", "7">>] }
    /\ \E open \in { [started_naive |-> FALSE, daily_room_id |-> "room-c1"],
                     [started_naive |-> FALSE, daily_room_id |-> ""],
                     [started_naive |-> TRUE, daily_room_id |-> "room-c1"] } :
         /\ db_convs =
              [c \in ConvIds |->
                 CASE c = "c0" ->
                        [user_id |-> "u1", started_at |-> 1, started_naive |-> FALSE,
                         ended_at |-> 1, duration_seconds |-> 0,
                         daily_room_id |-> "room-c0",
                         main_topic |-> T("Soul Urge Number"),
                         key_insights |-> T("your soul urge is 9"),
                         numbers_discussed |-> T("9")]
                   [] c = "c1" ->
                        [user_id |-> "u1", started_at |-> 2,
                         started_naive |-> open.started_naive,
                         ended_at |-> Null, duration_seconds |-> Null,
                         daily_room_id |-> open.daily_room_id,
                         main_topic |-> NoTxt, key_insights |-> NoTxt,
                         numbers_discussed |-> NoTxt]
                   [] c = "c2" ->
                        [user_id |-> "u2", started_at |-> 1, started_naive |-> FALSE,
                         ended_at |-> 1, duration_seconds |-> 0,
                         daily_room_id |-> "",
                         main_topic |-> NoTxt, key_insights |-> NoTxt,
                         numbers_discussed |-> NoTxt]]
         /\ rooms = IF open.daily_room_id = "" THEN {} ELSE {open.daily_room_id}
    /\ ereq = [e \in EndIds |-> IdleEndReq]
    /\ greq = [g \in GetIds |-> IdleGet]
    /\ hist = [commits |-> [c \in ConvIds |-> 0],
               inval_calls |-> [c \in ConvIds |-> 0],
               inval_any |-> [u \in Users |-> -1],
               inval_ok |-> [u \in Users |-> -1],
               ended |-> {}]

\* The entry a get stores for a user
ComputedEntry(user_id, stamp) ==
    [stamp |-> stamp,
     text |-> format_conversation_history(
                  get_recent_conversations(user_id, RECENT_LIMIT, TRUE), MAX_TOKENS),
     ttl |-> CACHE_TTL]

\* End requests that may overlap, with the context of u1 cached or not.
InitEnd ==
    /\ InitStore
    /\ IdleStart
    /\ wseq = 1
    /\ \E entry \in {NoEntry, ComputedEntry("u1", 1)} :
         cache = [u \in Users |-> IF u = "u1" THEN entry ELSE NoEntry]

NextEnd ==
    \/ \E e \in EndIds : EndCheck(e) /\ UNCHANGED <<dispatchVars, fmtVars, now, saveVars, messages, startVars>>
    \/ \E e \in EndIds : EndSummary(e) /\ UNCHANGED <<dispatchVars, fmtVars, now, saveVars, messages, startVars>>
    \/ \E e \in EndIds : EndCommit(e) /\ UNCHANGED <<dispatchVars, fmtVars, now, saveVars, messages, startVars>>
    \/ \E e \in EndIds : EndInvalidate(e) /\ UNCHANGED <<dispatchVars, fmtVars, now, saveVars, messages, startVars>>
    \/ \E e \in EndIds : EndDeleteRoom(e) /\ UNCHANGED <<dispatchVars, fmtVars, now, saveVars, messages, startVars>>
    \/ Tick /\ UNCHANGED <<dispatchVars, fmtVars, endVars, startVars>>

SpecEnd == InitEnd /\ [][NextEnd]_vars

\* One end request and the gets of the pipelines around it, on an empty
\* cache.
InitCache ==
    /\ InitStore
    /\ IdleStart
    /\ wseq = 0
    /\ cache = [u \in Users |-> NoEntry]

NextCache ==
    \/ EndCheck("e1") /\ UNCHANGED <<dispatchVars, fmtVars, now, saveVars, messages, startVars>>
    \/ EndSummary("e1") /\ UNCHANGED <<dispatchVars, fmtVars, now, saveVars, messages, startVars>>
    \/ EndCommit("e1") /\ UNCHANGED <<dispatchVars, fmtVars, now, saveVars, messages, startVars>>
    \/ EndInvalidate("e1") /\ UNCHANGED <<dispatchVars, fmtVars, now, saveVars, messages, startVars>>
    \/ EndDeleteRoom("e1") /\ UNCHANGED <<dispatchVars, fmtVars, now, saveVars, messages, startVars>>
    \/ \E g \in GetIds : GetCheck(g) /\ UNCHANGED <<dispatchVars, fmtVars, now, saveVars, messages, startVars>>
    \/ \E g \in GetIds : GetCompute(g) /\ UNCHANGED <<dispatchVars, fmtVars, now, saveVars, messages, startVars>>
    \/ \E g \in GetIds : GetStore(g) /\ UNCHANGED <<dispatchVars, fmtVars, now, saveVars, messages, startVars>>
    \/ \E u \in Users : Expire(u) /\ UNCHANGED <<dispatchVars, fmtVars, now, saveVars, messages, startVars>>
    \/ Tick /\ UNCHANGED <<dispatchVars, fmtVars, endVars, startVars>>

SpecCache == InitCache /\ [][NextCache]_vars

(***************************************************************************)
(* Properties of end_conversation                                          *)
(***************************************************************************)
\* The requests that were answered with the success response for c
Succeeded(c) ==
    { e \in EndIds : /\ ereq[e].pc = "done"
                     /\ ereq[e].status = 200
                     /\ ereq[e].conv = c }

\* C4: ended_at and the fields derived from it are set exactly once per
\* conversation: whatever end requests arrive for it, overlapping ones
\* included, one of them writes the fields and is answered with success,
\* and no other one does.
C4_EndedFieldsSetOnce ==
    \A c \in ConvIds :
        /\ hist.commits[c] <= 1
        /\ Cardinality(Succeeded(c)) <= 1

\* C5: best-effort cleanup never blocks ending a conversation: a request
\* that has reached the cleanup steps, its update committed and reloaded,
\* leaves the conversation stored as ended and is answered with success,
\* whether the invalidation of the cache fails and whether the deletion of
\* the room returns false or raises.
C5_CleanupNeverBlocksEnd ==
    \A e \in EndIds :
        /\ ereq[e].pc \in {"committed", "invalidated"}
             => db_convs[ereq[e].conv].ended_at # Null
        /\ (ereq[e].pc = "done" /\ ereq[e].invalidated)
             => /\ ereq[e].status = 200
                /\ db_convs[ereq[e].conv].ended_at # Null

\* A request answered with success although its invalidation failed and
\* the deletion of its room raised.
C5_Witness ==
    /\ ereq["e1"].pc = "done"
    /\ ereq["e1"].invalidated
    /\ ~ereq["e1"].inval_ok
    /\ ereq["e1"].room_call = "other"
    /\ ereq["e1"].status = 200

\* C6: for each conversation the cache of its owner is invalidated exactly
\* once, after the commit that stores its summary and marks it ended, and
\* a request that is rejected invalidates nothing.
C6_InvalidatedExactlyOnce ==
    /\ \A c \in ConvIds :
         /\ hist.inval_calls[c] <= 1
         /\ hist.inval_calls[c] <= hist.commits[c]
         /\ (hist.commits[c] >= 1 /\ \A e \in EndIds : ereq[e].pc \in {"idle", "done"})
              => hist.inval_calls[c] = 1
    /\ \A e \in EndIds :
         (ereq[e].pc = "done" /\ ereq[e].status # 200) => ~ereq[e].invalidated

(***************************************************************************)
(* Properties of the context cache                                         *)
(***************************************************************************)
\* The text has an entry for conversation c: its date and its topic.
Includes(text, c) ==
    /\ text.kind = "full"
    /\ \E i \in DOMAIN text.entries :
         /\ text.entries[i].date = db_convs[c].started_at
         /\ text.entries[i].topic =
                OrDefault(db_convs[c].main_topic, T("General discussion"))

\* The gets that ran to their end with the store and the storage answering
NoFailure(g) ==
    /\ greq[g].pc = "done"
    /\ greq[g].how # "error"
    /\ greq[g].how = "computed" => greq[g].db_ok

\* C7: a get of the user that starts after end_conversation has completed
\* for a conversation returns a text that includes that conversation, by
\* its topic, with no wait for the entry to expire.
C7_GetAfterEndIncludesConversation ==
    \A g \in GetIds :
        NoFailure(g) => \A c \in greq[g].seen.ended : Includes(greq[g].out.val, c)

C10_GetNeverRaises ==
    \A g \in GetIds :
        greq[g].pc = "done"
            => /\ greq[g].out.ok
               /\ greq[g].how = "error" => greq[g].out.val = EmptyText
               /\ (greq[g].how = "computed" /\ ~greq[g].db_ok)
                    => greq[g].out.val = EmptyText

\* One get ended on a failing store, another on failing storage.
C10_Witness ==
    /\ greq["g1"].pc = "done"
    /\ greq["g1"].how = "error"
    /\ greq["g2"].pc = "done"
    /\ greq["g2"].how = "computed"
    /\ ~greq["g2"].db_ok

(***************************************************************************)
(* start_conversation, the room provider client and the construction of    *)
(* the pipeline in run_bot                                                 *)
(*                                                                         *)
(* A start request commits the Conversation row, creates the room and its  *)
(* meeting token, commits the room id and spawns run_bot as a task of its  *)
(* own; run_bot validates the configuration, builds the services and the   *)
(* opening context and runs the pipeline, which joins the room.            *)
(***************************************************************************)
StartIds == {"s1", "s2"}

\* The id the database gives to the conversation of a start request
NewConv(s) == IF s = "s1" THEN "n1" ELSE "n2"

Credentials ==
    {"DAILY_API_KEY", "DEEPGRAM_API_KEY", "AZURE_OPENAI_API_KEY",
     "AZURE_OPENAI_ENDPOINT", "ELEVENLABS_API_KEY"}

\* The settings _validate_configuration looks at
PipelineCredentials ==
    {"DEEPGRAM_API_KEY", "AZURE_OPENAI_API_KEY", "AZURE_OPENAI_ENDPOINT",
     "ELEVENLABS_API_KEY"}

VoiceLanguages == {"vi", "en"}

\* _validate_configuration(): the four settings are tested in turn, each
\* unset one is appended to missing_keys, and one ValueError whose message
\* joins the entries is raised when the list is not empty.
validate_configuration_FirstOnly(keys) ==
    LET Missing(k) == IF k \in keys THEN <<>> ELSE <<k>>
        missing_keys == Missing("DEEPGRAM_API_KEY") \o Missing("AZURE_OPENAI_API_KEY")
                        \o Missing("AZURE_OPENAI_ENDPOINT") \o Missing("ELEVENLABS_API_KEY")
    IN  IF missing_keys # <<>>
        THEN [ok |-> FALSE, exc |-> "ValueError", missing_keys |-> <<Head(missing_keys)>>]
        ELSE Ret(None)

validate_configuration(keys) ==
    LET Missing(k) == IF k \in keys THEN <<>> ELSE <<k>>
        missing_keys == Missing("DEEPGRAM_API_KEY") \o Missing("AZURE_OPENAI_API_KEY")
                        \o Missing("AZURE_OPENAI_ENDPOINT") \o Missing("ELEVENLABS_API_KEY")
    IN  IF missing_keys # <<>>
        THEN [ok |-> FALSE, exc |-> "ValueError", missing_keys |-> missing_keys]
        ELSE Ret(None)

\* room_name = f"numerologist-{conversation_id}"
RoomName(conversation_id) == "numerologist-" \o conversation_id

\* What the provider answers to the POST of the room and of the token
CreateResponses ==
    {"ok", "room_status", "room_network", "token_status", "token_network"}

\* create_room(conversation_id): the outcome, and whether the room exists
\* at the provider afterwards. The token is requested once the room is made.
create_room(conversation_id, keys, response) ==
    IF "DAILY_API_KEY" \notin keys
    THEN [out |-> Raise("ValueError"), created |-> FALSE]
    ELSE CASE response = "ok" ->
                [out |-> Ret([room_name |-> RoomName(conversation_id)]),
                 created |-> TRUE]
           [] response \in {"room_status", "room_network"} ->
                [out |-> Raise("DailyRoomCreationError"), created |-> FALSE]
           [] response \in {"token_status", "token_network"} ->
                [out |-> Raise("DailyRoomCreationError"), created |-> TRUE]

\* Conversation(user_id=...), as stored by the first commit
NewConversation(user_id, started_at) ==
    [user_id |-> user_id, started_at |-> started_at, started_naive |-> FALSE,
     ended_at |-> Null, duration_seconds |-> Null, daily_room_id |-> "",
     main_topic |-> NoTxt, key_insights |-> NoTxt, numbers_discussed |-> NoTxt]

IdleStartReq == [pc |-> "idle"]

\* The except clause of start_conversation: rollback, then a 500.
StartFailed(req, step) ==
    [pc |-> "done", status |-> 500, failed_at |-> step,
     user_id |-> req.user_id, conv |-> req.conv]

\* Step 1: session.add(conversation); session.commit(); session.refresh
StartCreate(s) ==
    /\ sreq[s].pc = "idle"
    /\ \E user_id \in Users, db_ok \in BOOLEAN :
         LET req == [user_id |-> user_id, conv |-> NewConv(s)]
         IN  IF db_ok
             THEN /\ db_convs' = db_convs @@ (NewConv(s) :> NewConversation(user_id, now))
                  /\ sreq' = [sreq EXCEPT ![s] = [pc |-> "created"] @@ req]
             ELSE /\ sreq' = [sreq EXCEPT ![s] = StartFailed(req, "create")]
                  /\ UNCHANGED db_convs
    /\ UNCHANGED <<cache, wseq, rooms, ereq, greq, hist, settings, bots, loop>>

\* Step 2: room_data = await create_room(str(conversation.id))
StartCreateRoom(s) ==
    /\ sreq[s].pc = "created"
    /\ \E response \in CreateResponses :
         LET made == create_room(sreq[s].conv, settings.keys, response)
         IN  /\ rooms' = IF made.created THEN rooms \cup {RoomName(sreq[s].conv)}
                         ELSE rooms
             /\ sreq' = [sreq EXCEPT ![s] =
                   IF made.out.ok
                   THEN [pc |-> "room", room_name |-> made.out.val.room_name] @@ @
                   ELSE StartFailed(@, "room")]
    /\ UNCHANGED <<db_convs, cache, wseq, ereq, greq, hist, settings, bots, loop>>

\* Steps 3 to 5: the room id is committed, run_bot is spawned with
\* asyncio.create_task and the response returned.
StartSpawn(s) ==
    /\ sreq[s].pc = "room"
    /\ \E db_ok \in BOOLEAN :
         IF db_ok
         THEN /\ db_convs' = [db_convs EXCEPT
                    ![sreq[s].conv].daily_room_id = sreq[s].room_name]
              /\ bots' = bots @@ (sreq[s].conv :>
                    [pc |-> "spawned", user_id |-> sreq[s].user_id,
                     room_name |-> sreq[s].room_name])
              /\ sreq' = [sreq EXCEPT ![s] =
                    [pc |-> "done", status |-> 200, failed_at |-> "-"] @@ @]
         ELSE /\ sreq' = [sreq EXCEPT ![s] = StartFailed(@, "commit")]
              /\ UNCHANGED <<db_convs, bots>>
    /\ UNCHANGED <<cache, wseq, rooms, ereq, greq, hist, settings, loop>>

\* get_numerology_system_prompt(user, conversation_history): the template
\* with the history appended when one is given; the fallback prompt when
\* the template cannot be loaded.
get_numerology_system_prompt(user_id, conversation_history, template_ok) ==
    IF template_ok
    THEN [instructions |-> "numerology", user |-> user_id,
          history |-> conversation_history]
    ELSE [instructions |-> "fallback", user |-> "-", history |-> EmptyText]

\* generic_prompts.get(settings.voice_language, generic_prompts["en"])
generic_prompt(voice_language) ==
    [instructions |-> "generic-" \o voice_language, user |-> "-",
     history |-> EmptyText]

\* The system prompt of run_bot: the call passes the user alone.
system_prompt(voice_language, user_id, template_ok) ==
    IF voice_language = "vi" /\ user_id # "-"
    THEN get_numerology_system_prompt(user_id, EmptyText, template_ok)
    ELSE generic_prompt(voice_language)

\* run_bot: _validate_configuration() comes first; its ValueError is
\* logged and raised again, which ends the task.
RunBotValidate(c) ==
    /\ c \in DOMAIN bots
    /\ bots[c].pc = "spawned"
    /\ bots' = [bots EXCEPT ![c] =
          IF validate_configuration(settings.keys).ok
          THEN [pc |-> "validated"] @@ @
          ELSE [pc |-> "failed", exc |-> "ValueError",
                missing_keys |-> validate_configuration(settings.keys).missing_keys] @@ @]
    /\ UNCHANGED <<db_convs, cache, wseq, rooms, ereq, greq, hist, settings, sreq, loop>>

\* run_bot: the transport, the services, the opening context and the
\* pipeline are built and the runner started; the transport joins the room.
\* Any failure on the way is raised as PipecatBotError.
RunBotBuild(c) ==
    /\ c \in DOMAIN bots
    /\ bots[c].pc = "validated"
    /\ \E template_ok \in BOOLEAN, built \in BOOLEAN :
         bots' = [bots EXCEPT ![c] =
            IF built
            THEN [pc |-> "running", connected |-> TRUE, cache_reads |-> 0,
                  messages |-> << [role |-> "system",
                                   content |-> system_prompt(settings.voice_language,
                                                             @.user_id, template_ok)] >>]
                 @@ @
            ELSE [pc |-> "failed", exc |-> "PipecatBotError"] @@ @]
    /\ UNCHANGED <<db_convs, cache, wseq, rooms, ereq, greq, hist, settings, sreq, loop>>

\* A deployment with any of the credentials set or missing; u1 has a
\* completed conversation, cached or not.
InitStart ==
    /\ IdleDispatch
    /\ IdleFmt
    /\ now = 2
    /\ context = <<>>
    /\ tasks = <<>>
    /\ messages = {}
    /\ db_convs = ("c0" :> [user_id |-> "u1", started_at |-> 1, started_naive |-> FALSE,
                            ended_at |-> 1, duration_seconds |-> 0,
                            daily_room_id |-> "room-c0",
                            main_topic |-> T("Soul Urge Number"),
                            key_insights |-> T("your soul urge is 9"),
                            numbers_discussed |-> T("9")])
    /\ cache \in { [u \in Users |-> NoEntry],
                   [u \in Users |-> IF u = "u1"
                                    THEN [stamp |-> 1, ttl |-> CACHE_TTL,
                                          text |-> [kind |-> "full", entries |->
                                             << [i |-> 1, date |-> 1,
                                                 topic |-> T("Soul Urge Number"),
                                                 numbers |-> T("9"),
                                                 insights |-> T("your soul urge is 9")] >>]]
                                    ELSE NoEntry] }
    /\ wseq = 1
    /\ rooms = {}
    /\ ereq = [e \in EndIds |-> IdleEndReq]
    /\ greq = [g \in GetIds |-> IdleGet]
    /\ hist = [commits |-> [c \in ConvIds |-> 0],
               inval_calls |-> [c \in ConvIds |-> 0],
               inval_any |-> [u \in Users |-> -1],
               inval_ok |-> [u \in Users |-> -1],
               ended |-> {}]
    /\ settings \in [keys : SUBSET Credentials, voice_language : VoiceLanguages]
    /\ sreq = [s \in StartIds |-> IdleStartReq]
    /\ bots = <<>>
    /\ loop = <<>>

NextStart ==
    \/ \E s \in StartIds : StartCreate(s) /\ UNCHANGED <<dispatchVars, fmtVars, now, saveVars, messages>>
    \/ \E s \in StartIds : StartCreateRoom(s) /\ UNCHANGED <<dispatchVars, fmtVars, now, saveVars, messages>>
    \/ \E s \in StartIds : StartSpawn(s) /\ UNCHANGED <<dispatchVars, fmtVars, now, saveVars, messages>>
    \/ \E c \in DOMAIN bots : RunBotValidate(c) /\ UNCHANGED <<dispatchVars, fmtVars, now, saveVars, messages>>
    \/ \E c \in DOMAIN bots : RunBotBuild(c) /\ UNCHANGED <<dispatchVars, fmtVars, now, saveVars, messages>>
    \/ Tick /\ UNCHANGED <<dispatchVars, fmtVars, endVars, startVars>>

SpecStart == InitStart /\ [][NextStart]_vars

\* C11: a missing credential is fatal before any room resource is touched:
\* while a required credential is missing no room exists at the provider
\* and no transport is connected to a room.
C11_NoRoomWithoutCredentials ==
    Credentials \ settings.keys # {}
        => /\ rooms = {}
           /\ \A c \in DOMAIN bots : bots[c].pc # "running"

\* The cross-session summary of a user: what a get returns for the user
\* when the store and the storage answer.
Summary(user_id) ==
    format_conversation_history(
        get_recent_conversations(user_id, RECENT_LIMIT, TRUE), MAX_TOKENS)

\* C12: at pipeline construction the context cache is read exactly once for
\* the user of the conversation, and the opening context is the instruction
\* set with the cached summary appended when there is a non-empty one.
C12_CacheReadOnceAtConstruction ==
    \A c \in DOMAIN bots :
        bots[c].pc = "running"
            => /\ bots[c].cache_reads = 1
               /\ bots[c].messages[1].content.history
                      \in {Summary(bots[c].user_id), EmptyText}
               /\ (bots[c].messages[1].content.instructions = "numerology"
                   /\ cache[bots[c].user_id] # NoEntry)
                     => bots[c].messages[1].content.history = Summary(bots[c].user_id)

\* C18: when the creation of the room fails, the start request is answered
\* with a 500 and no Conversation row of the attempt is left in storage.
C18_FailedRoomCreationLeavesNoRecord ==
    \A s \in StartIds :
        (sreq[s].pc = "done" /\ sreq[s].failed_at = "room")
            => /\ sreq[s].status = 500
               /\ sreq[s].conv \notin DOMAIN db_convs

(***************************************************************************)
(* The pipeline of a conversation that is ended                            *)
(*                                                                         *)
(* run_bot keeps its PipelineTask to itself, and start_conversation drops  *)
(* the task returned by asyncio.create_task: end_conversation has no       *)
(* handle on the pipeline. What reaches the pipeline is the deletion of    *)
(* the room, which closes the connection of its transport.                 *)
(***************************************************************************)
\* The transport of a running pipeline loses its room and the runner
\* returns.
PipelineStops(c) ==
    /\ c \in DOMAIN bots
    /\ bots[c].pc = "running"
    /\ bots[c].room_name \notin rooms
    /\ bots' = [bots EXCEPT ![c].pc = "stopped", ![c].connected = FALSE]
    /\ UNCHANGED <<db_convs, cache, wseq, rooms, ereq, greq, hist, settings, sreq, loop>>

\* The steps of the end request e1 once it has been received
EndProceeds ==
    \/ EndSummary("e1")
    \/ EndCommit("e1")
    \/ EndInvalidate("e1")
    \/ EndDeleteRoom("e1")

\* The stored conversations, with the pipeline of c1 running in its room
\* when it has one.
InitLife ==
    /\ InitStore
    /\ wseq = 0
    /\ cache = [u \in Users |-> NoEntry]
    /\ settings = [keys |-> Credentials, voice_language |-> "vi"]
    /\ sreq = <<>>
    /\ bots = IF db_convs["c1"].daily_room_id = "" THEN <<>>
              ELSE ("c1" :> [pc |-> "running", user_id |-> "u1",
                             room_name |-> db_convs["c1"].daily_room_id,
                             connected |-> TRUE, cache_reads |-> 0,
                             messages |-> << [role |-> "system",
                                              content |-> system_prompt("vi", "u1", TRUE)] >>])
    /\ loop = <<>>

NextLife ==
    \/ EndCheck("e1") /\ UNCHANGED <<dispatchVars, fmtVars, now, saveVars, messages, startVars>>
    \/ EndProceeds /\ UNCHANGED <<dispatchVars, fmtVars, now, saveVars, messages, startVars>>
    \/ \E c \in DOMAIN bots : PipelineStops(c) /\ UNCHANGED <<dispatchVars, fmtVars, now, saveVars, messages>>
    \/ Tick /\ UNCHANGED <<dispatchVars, fmtVars, endVars, startVars>>

\* A request that was received runs to its response, and a transport that
\* lost its room stops its pipeline.
SpecLife ==
    /\ InitLife /\ [][NextLife]_vars
    /\ WF_vars(EndProceeds /\ UNCHANGED <<dispatchVars, fmtVars, now, saveVars, messages, startVars>>)
    /\ WF_vars(\E c \in DOMAIN bots : PipelineStops(c) /\ UNCHANGED <<dispatchVars, fmtVars, now, saveVars, messages>>)

\* C13: ending a conversation cancels its pipeline task: once
\* end_conversation has completed for the conversation its pipeline
\* eventually stops, whatever the deletion of the room answered.
C13_EndStopsPipeline ==
    (/\ ereq["e1"].pc = "done"
     /\ ereq["e1"].status = 200
     /\ ereq["e1"].conv \in DOMAIN bots)
        ~> ("c1" \in DOMAIN bots /\ bots["c1"].pc = "stopped")

(***************************************************************************)
(* The tool loop of a running pipeline                                     *)
(*                                                                         *)
(* run_bot registers the four handlers of function_handlers.py with the    *)
(* reasoning service by name. The service calls a registered handler with  *)
(* one FunctionCallParams object, and a result enters the running context, *)
(* and the reasoning step runs again, when the handler calls               *)
(* params.result_callback (the handler pattern of                          *)
(* boilerplate/backend/voice_pipeline/function_handlers.py).               *)
(***************************************************************************)
MaxTurns == 3

\* The object a registered handler is called with
FunctionCallParams(arguments) == [t |-> "params", arguments |-> arguments]

\* llm.register_function(name, handler, ...)
RegisteredNames ==
    {"calculate_life_path", "calculate_expression_number",
     "calculate_soul_urge_number", "get_numerology_interpretation"}

\* Tool invocations of the reasoning step
ToolCalls ==
    { [name |-> "calculate_life_path",
       arguments |-> DictV([k \in {"birth_date"} |-> StrV(D_1990_05_15)])],
      [name |-> "calculate_life_path",
       arguments |-> DictV([k \in {"birth_date"} |-> StrV(D_slashes)])],
      [name |-> "calculate_expression_number",
       arguments |-> DictV([k \in {"full_name"} |-> StrV(N_John)])],
      [name |-> "calculate_soul_urge_number",
       arguments |-> DictV([k \in {"full_name"} |-> StrV(N_Mary_Ann)])],
      [name |-> "get_numerology_interpretation",
       arguments |-> DictV([k \in {"number_type", "number_value"} |->
                               IF k = "number_type" THEN StrV(W_life_path) ELSE IntV(1)])] }

\* The call of the registered handler with the params object as its only
\* argument: the three calculation handlers take it for their birth_date
\* or full_name, handle_get_interpretation lacks its number_value.
registered_handler_call(name, params) ==
    CASE name = "calculate_life_path" -> handle_calculate_life_path(params)
      [] name = "calculate_expression_number" -> handle_calculate_expression(params)
      [] name = "calculate_soul_urge_number" -> handle_calculate_soul_urge(params)
      [] name = "get_numerology_interpretation" -> Raise("TypeError")

\* How often a handler calls params.result_callback: the handlers return
\* their dict and call nothing.
result_callbacks(name) == 0

IdleLoop == [pc |-> "idle", turns |-> 0, llm_runs |-> 0, messages |-> <<>>]

\* The user aggregator adds the utterance and the reasoning step runs.
UserTurn ==
    /\ loop.pc \in {"idle", "handler_returned"}
    /\ loop.turns < MaxTurns
    /\ loop' = [loop EXCEPT !.pc = "reasoning", !.turns = @ + 1, !.llm_runs = @ + 1,
                            !.messages = Append(@, [role |-> "user"])]
    /\ UNCHANGED <<db_convs, cache, wseq, rooms, ereq, greq, hist, settings, sreq, bots>>

\* The reasoning step answers with text.
ReasoningReplies ==
    /\ loop.pc = "reasoning"
    /\ loop' = [loop EXCEPT !.pc = "idle",
                            !.messages = Append(@, [role |-> "assistant"])]
    /\ UNCHANGED <<db_convs, cache, wseq, rooms, ereq, greq, hist, settings, sreq, bots>>

\* The reasoning step emits a tool invocation.
ReasoningEmitsCall ==
    /\ loop.pc = "reasoning"
    /\ \E call \in ToolCalls :
         loop' = [pc |-> "function_call", call |-> call] @@ loop
    /\ UNCHANGED <<db_convs, cache, wseq, rooms, ereq, greq, hist, settings, sreq, bots>>

\* The service runs the registered handler. The result is appended to the
\* context, and the reasoning step run again, once per result_callback.
RunFunctionCall ==
    /\ loop.pc = "function_call"
    /\ LET params == FunctionCallParams(loop.call.arguments)
           ran == registered_handler_call(loop.call.name, params)
           fed == result_callbacks(loop.call.name) > 0
       IN  loop' = [pc |-> IF fed THEN "reasoning" ELSE "handler_returned",
                    received |-> params, ran |-> ran, fed_back |-> fed,
                    llm_runs |-> IF fed THEN loop.llm_runs + 1 ELSE loop.llm_runs,
                    messages |-> IF fed
                                 THEN Append(loop.messages,
                                             [role |-> "tool", name |-> loop.call.name])
                                 ELSE loop.messages]
                   @@ loop
    /\ UNCHANGED <<db_convs, cache, wseq, rooms, ereq, greq, hist, settings, sreq, bots>>

InitLoop ==
    /\ IdleDispatch
    /\ IdleSave
    /\ IdleFmt
    /\ IdleEnd
    /\ settings = <<>>
    /\ sreq = <<>>
    /\ bots = <<>>
    /\ loop = IdleLoop

NextLoop ==
    \/ UserTurn /\ UNCHANGED <<dispatchVars, fmtVars, now, saveVars, messages>>
    \/ ReasoningReplies /\ UNCHANGED <<dispatchVars, fmtVars, now, saveVars, messages>>
    \/ ReasoningEmitsCall /\ UNCHANGED <<dispatchVars, fmtVars, now, saveVars, messages>>
    \/ RunFunctionCall /\ UNCHANGED <<dispatchVars, fmtVars, now, saveVars, messages>>

SpecLoop == InitLoop /\ [][NextLoop]_vars

\* C14: whenever the reasoning step emits a tool invocation, the function
\* dispatch handler receives the invocation's arguments, its result is fed
\* back into the running context and the reasoning step is invoked again.
C14_ToolResultFedBack ==
    ("ran" \in DOMAIN loop /\ loop.pc # "function_call")
        => /\ loop.received = loop.call.arguments
           /\ loop.fed_back
           /\ \E i \in DOMAIN loop.messages :
                /\ loop.messages[i].role = "tool"
                /\ loop.messages[i].name = loop.call.name
           /\ loop.llm_runs > loop.turns

(***************************************************************************)
(* Properties of room deletion and of rejected end requests                *)
(***************************************************************************)
\* The end requests whose room cleanup called delete_room
RoomCalls == { e \in DOMAIN ereq : ereq[e].pc = "done" /\ ereq[e].room_call # "-" }

\* C15: delete_room never raises on a provider failure: a 404, any other
\* HTTP error status and a network error each yield false, and true is
\* returned only when the provider confirmed the deletion.
C15_DeleteRoomFalseOnProviderFailure ==
    \A e \in RoomCalls :
        /\ ereq[e].room_call \in {"404", "500", "network"}
              => (ereq[e].deleted.ok /\ ereq[e].deleted.val = FALSE)
        /\ (ereq[e].deleted.ok /\ ereq[e].deleted.val = TRUE)
              => ereq[e].room_call = "200"

\* A not-found answer, an error status and a network error have each been
\* reported as false, and a confirmed deletion as true.
C15_Witness ==
    /\ \E e \in RoomCalls : ereq[e].room_call = "network" /\ ereq[e].deleted.ok
    /\ \E e \in RoomCalls : ereq[e].room_call = "200" /\ ereq[e].deleted.ok

\* C16 as stated: a not-found response is treated as success, so deleting
\* an already deleted room has the outcome of a successful deletion (true).
C16_NotFoundSameAsDeleted ==
    \A e \in RoomCalls :
        ereq[e].room_call = "404"
            => (ereq[e].deleted.ok /\ ereq[e].deleted.val = TRUE)

\* C16 amended: deleting a room that is already deleted does not raise,
\* leaves the room absent and lets the end request complete with 200, but
\* delete_room reports false where a confirmed deletion reports true.
C16_NotFoundIsFalseNotError ==
    \A e \in RoomCalls :
        ereq[e].room_call = "404"
            => /\ ereq[e].deleted.ok
               /\ ereq[e].deleted.val = FALSE
               /\ ereq[e].status = 200
               /\ db_convs[ereq[e].conv].daily_room_id \notin rooms

\* One request deleted the room of a conversation and a second request
\* deleted it again.
C16_Witness ==
    \E e1 \in RoomCalls, e2 \in RoomCalls :
        /\ ereq[e1].conv = ereq[e2].conv
        /\ ereq[e1].room_call = "200"
        /\ ereq[e2].room_call = "404"

\* C17: an end request answered with 404 (no such conversation), 403
\* (another user's conversation) or 400 (already ended) changes nothing:
\* the stored conversations keep ended_at, duration and summary fields,
\* the cache is not invalidated and no room deletion is attempted.
C17_RejectedEndChangesNothing ==
    [][\A e \in EndIds :
          (/\ ereq[e].pc = "idle"
           /\ ereq'[e].pc = "done"
           /\ ereq'[e].status \in {404, 403, 400})
              => /\ db_convs' = db_convs
                 /\ cache' = cache
                 /\ rooms' = rooms
                 /\ hist' = hist
                 /\ ~ereq'[e].committed
                 /\ ~ereq'[e].invalidated
                 /\ ereq'[e].room_call = "-"]_vars

\* One request was rejected as already ended or not found and the other as
\* not authorized, with the open conversation untouched.
C17_Witness ==
    /\ ereq["e1"].pc = "done" /\ ereq["e1"].status \in {400, 404}
    /\ ereq["e2"].pc = "done" /\ ereq["e2"].status = 403
    /\ db_convs["c1"].ended_at = Null
    /\ hist.inval_any = [u \in Users |-> -1]

(***************************************************************************)
(* Properties of the message saving hook                                   *)
(***************************************************************************)
\* The saves dispatched for the i-th message added to the context
SavesOf(i) == { k \in DOMAIN tasks : tasks[k].seq = i }

\* C19: each add_message with role user or assistant and non-empty content
\* dispatches exactly one save carrying that role and content, and a
\* message of any other role, or without content, dispatches none.
C19_OneSavePerUserOrAssistantMessage ==
    /\ \A i \in DOMAIN context :
         Cardinality(SavesOf(i)) =
            IF context[i].role \in {"user", "assistant"} /\ context[i].content # <<>>
            THEN 1 ELSE 0
    /\ \A k \in DOMAIN tasks :
         /\ tasks[k].seq \in DOMAIN context
         /\ tasks[k].content = context[tasks[k].seq].content
         /\ tasks[k].role = IF context[tasks[k].seq].role = "user"
                            THEN "USER" ELSE "ASSISTANT"

\* A system message with content was added without a save, then an
\* assistant message whose save was dispatched.
C19_Witness ==
    /\ Len(context) = 2
    /\ context[1] = [role |-> "system", content |-> <<"hi">>]
    /\ context[2] = [role |-> "assistant", content |-> <<"hi">>]
    /\ Len(tasks) = 1
    /\ tasks[1].seq = 2
    /\ tasks[1].role = "ASSISTANT"

(***************************************************************************)
(* Properties of the dispatch of unregistered tool names                   *)
(***************************************************************************)
\* C20 as stated: the dispatch of a name that is not a registered tool
\* returns an error result of kind UnknownTool, and never raises.
C20_UnknownNameGivesUnknownTool ==
    (fn_call # NoCall /\ fn_call.name \notin RegisteredNames)
        => (fn_outcome.ok /\ fn_outcome.val.error = "UnknownTool")

\* C20 amended: the dispatch of a name that is not a registered tool
\* returns an error result of kind UnknownFunction, whatever the
\* arguments are, and never raises.
C20_UnknownNameGivesUnknownFunction ==
    (fn_call # NoCall /\ fn_call.name \notin RegisteredNames)
        => (fn_outcome.ok /\ fn_outcome.val.error = "UnknownFunction")

\* An unregistered name was dispatched with an arguments value that is
\* not a map.
C20_Witness ==
    /\ fn_call # NoCall
    /\ fn_call.name = "unknown_function"
    /\ fn_call.arguments = None
    /\ fn_outcome.ok

(***************************************************************************)
(* Properties of the error results of the dispatch                         *)
(***************************************************************************)
\* C21: for each known tool, the dispatch with an argument map from which
\* a required argument is absent returns an error result of kind
\* MissingArgument.
C21_MissingArgumentReported ==
    LET required ==
          [name \in RegisteredNames |->
              CASE name = "calculate_life_path" -> {"birth_date"}
                [] name = "calculate_expression_number" -> {"full_name"}
                [] name = "calculate_soul_urge_number" -> {"full_name"}
                [] name = "get_numerology_interpretation" ->
                       {"number_type", "number_value"}]
    IN  (/\ fn_call # NoCall
         /\ fn_call.name \in RegisteredNames
         /\ fn_call.arguments.t = "dict"
         /\ ~(required[fn_call.name] \subseteq DOMAIN fn_call.arguments.m))
            => /\ fn_outcome.ok
               /\ "error" \in DOMAIN fn_outcome.val
               /\ fn_outcome.val.error = "MissingArgument"

\* The interpretation tool was dispatched with its number_type and
\* without its number_value.
C21_Witness ==
    /\ fn_call # NoCall
    /\ fn_call.name = "get_numerology_interpretation"
    /\ fn_call.arguments.t = "dict"
    /\ DOMAIN fn_call.arguments.m = {"number_type"}
    /\ fn_outcome.ok

\* C22 as stated: every error result has the shape {error, message} and
\* its kind is one of InvalidDate, InvalidName, CalculationError,
\* DatabaseError, UnknownTool, MissingArgument.
C22_ErrorKindOneOfSix ==
    (fn_outcome.ok /\ "error" \in DOMAIN fn_outcome.val)
        => /\ DOMAIN fn_outcome.val = {"error", "message"}
           /\ fn_outcome.val.error \in
                 {"InvalidDate", "InvalidName", "CalculationError",
                  "DatabaseError", "UnknownTool", "MissingArgument"}

\* C22 amended: every error result has the shape {error, message} and its
\* kind is one of InvalidDate, InvalidName, CalculationError,
\* DatabaseError, UnknownFunction, MissingArgument, HandlerError.
C22_ErrorKindOneOfSeven ==
    (fn_outcome.ok /\ "error" \in DOMAIN fn_outcome.val)
        => /\ DOMAIN fn_outcome.val = {"error", "message"}
           /\ fn_outcome.val.error \in
                 {"InvalidDate", "InvalidName", "CalculationError",
                  "DatabaseError", "UnknownFunction", "MissingArgument",
                  "HandlerError"}

\* A known tool was dispatched with an arguments value that is not a map
\* and the catch-all of the dispatch answered.
C22_Witness ==
    /\ fn_call # NoCall
    /\ fn_call.name = "calculate_life_path"
    /\ fn_call.arguments = None
    /\ fn_outcome.ok
    /\ fn_outcome.val.error = "HandlerError"

(***************************************************************************)
(* The numerology engine called on its own                                 *)
(*                                                                         *)
(* One call of an engine function per behaviour: fn_call holds the         *)
(* function and its argument, fn_outcome what the call returned or raised. *)
(***************************************************************************)
MaxNumber == 200

calculate_birthday_number(birth_date) == reduce_to_single_digit(birth_date.day)

\* The dates of four years, as datetime.date admits them
EngineDates ==
    { d \in [year : {1979, 1984, 1990, 2000}, month : 1..12, day : 1..31] :
        d.day <= DaysInMonth(d.year, d.month) }

\* Non-empty names: ASCII letters, a space, an apostrophe, a name without
\* vowels, a name with a letter that is not ASCII
EngineNames ==
    { N_John, N_Mary_Ann, N_Dan, <<"N", "g">>,
      <<"O", "'", "N", "e", "i", "l">>, <<"E", "L", "I", "Z", "A", "B", "E", "T", "H">> }

ReduceNumber ==
    /\ fn_call = NoCall
    /\ \E number \in 0..MaxNumber :
         /\ fn_call' = [name |-> "_reduce_to_single_digit", number |-> number]
         /\ fn_outcome' = Ret(reduce_to_single_digit(number))

BirthdayNumber ==
    /\ fn_call = NoCall
    /\ \E birth_date \in EngineDates :
         /\ fn_call' = [name |-> "calculate_birthday_number", birth_date |-> birth_date]
         /\ fn_outcome' = Ret(calculate_birthday_number(birth_date))

LifePath ==
    /\ fn_call = NoCall
    /\ \E birth_date \in EngineDates :
         /\ fn_call' = [name |-> "calculate_life_path", birth_date |-> birth_date]
         /\ fn_outcome' = Ret(calculate_life_path(birth_date))

ExpressionNumber ==
    /\ fn_call = NoCall
    /\ \E full_name \in EngineNames :
         /\ fn_call' = [name |-> "calculate_expression_number", full_name |-> full_name]
         /\ fn_outcome' = calculate_expression_number(full_name)

SoulUrgeNumber ==
    /\ fn_call = NoCall
    /\ \E full_name \in EngineNames :
         /\ fn_call' = [name |-> "calculate_soul_urge_number", full_name |-> full_name]
         /\ fn_outcome' = calculate_soul_urge_number(full_name)

InitEngine == IdleDispatch /\ IdleSave /\ IdleFmt /\ IdleEnd /\ IdleStart

NextEngine ==
    \/ ReduceNumber /\ UNCHANGED <<now, saveVars, messages, fmtVars, endVars, startVars>>
    \/ BirthdayNumber /\ UNCHANGED <<now, saveVars, messages, fmtVars, endVars, startVars>>
    \/ LifePath /\ UNCHANGED <<now, saveVars, messages, fmtVars, endVars, startVars>>
    \/ ExpressionNumber /\ UNCHANGED <<now, saveVars, messages, fmtVars, endVars, startVars>>
    \/ SoulUrgeNumber /\ UNCHANGED <<now, saveVars, messages, fmtVars, endVars, startVars>>

SpecEngine == InitEngine /\ [][NextEngine]_vars

\* C23 as stated: for every integer n >= 0, the reduction of n is a value
\* in {1..9, 11, 22, 33}.
C23_ReduceInRangeFromZero ==
    fn_call.name = "_reduce_to_single_digit"
        => fn_outcome.val \in (1..9) \cup {11, 22, 33}

\* C23 amended: for every integer n >= 1, the reduction of n terminates
\* with a value in {1..9, 11, 22, 33}; the reduction of 0 is 0.
C23_ReduceInRangeFromOne ==
    fn_call.name = "_reduce_to_single_digit"
        => /\ fn_outcome.ok
           /\ fn_call.number >= 1 => fn_outcome.val \in (1..9) \cup {11, 22, 33}
           /\ fn_call.number = 0 => fn_outcome.val = 0

\* A number of three digits was reduced in two steps.
C23_Witness ==
    /\ fn_call.name = "_reduce_to_single_digit"
    /\ fn_call.number = 199
    /\ fn_outcome.val = 1

\* C24: master values are terminal (the reduction of 11, 22, 33 is itself),
\* the reduction stops at the first master value of the digit-sum chain
\* (29 and 38 give 11) while any other value above 9 keeps reducing (99
\* gives 9); the birthday number of day 11, 22 and 29 is 11, 22 and 11.
C24_MasterValuesTerminal ==
    /\ fn_call.name = "_reduce_to_single_digit"
          => LET n == fn_call.number
                 v == fn_outcome.val
             IN  /\ n \in {11, 22, 33} => v = n
                 /\ n \in {29, 38} => v = 11
                 /\ n = 99 => v = 9
                 /\ (n > 9 /\ n \notin {11, 22, 33} /\ DigitSum(n) \in {11, 22, 33})
                       => v = DigitSum(n)
                 /\ (n > 9 /\ n \notin {11, 22, 33}) => v # n
    /\ fn_call.name = "calculate_birthday_number"
          => LET day == fn_call.birth_date.day
             IN  /\ day \in {11, 22} => fn_outcome.val = day
                 /\ day = 29 => fn_outcome.val = 11

\* The birthday number of a 29th was computed.
C24_Witness ==
    /\ fn_call.name = "calculate_birthday_number"
    /\ fn_call.birth_date.day = 29
    /\ fn_outcome.val = 11

C27_EngineTotalOnNames ==
    (fn_call.name \in {"calculate_expression_number", "calculate_soul_urge_number"}
        /\ "full_name" \in DOMAIN fn_call)
        => fn_outcome.ok

\* C26: every number returned on success by a calculation tool
\* (life_path_number, expression_number, soul_urge_number) is a value in
\* {1..9, 11, 22, 33}, for every valid date and every name the handler
\* accepts (non-empty, not only whitespace).
C26_ToolNumbersAreNumerologyResults ==
    (fn_outcome.ok /\ "arguments" \in DOMAIN fn_call)
        => \A key \in {"life_path_number", "expression_number", "soul_urge_number"} :
              key \in DOMAIN fn_outcome.val
                 => fn_outcome.val[key] \in (1..9) \cup {11, 22, 33}

C29_ValidationListsExactlyMissing ==
    LET required == {"DEEPGRAM_API_KEY", "AZURE_OPENAI_API_KEY",
                     "AZURE_OPENAI_ENDPOINT", "ELEVENLABS_API_KEY"}
    IN  \A c \in DOMAIN bots :
          /\ (bots[c].pc = "failed" /\ bots[c].exc = "ValueError")
                => /\ Range(bots[c].missing_keys) = required \ settings.keys
                   /\ Len(bots[c].missing_keys) = Cardinality(required \ settings.keys)
                   /\ bots[c].missing_keys # <<>>
          /\ (bots[c].pc # "spawned" /\ required \subseteq settings.keys)
                => ~(bots[c].pc = "failed" /\ bots[c].exc = "ValueError")
          /\ (bots[c].pc = "validated") => required \subseteq settings.keys

\* The check failed naming the two settings that are unset, the other two
\* being configured.
C29_Witness ==
    \E c \in DOMAIN bots :
        /\ bots[c].pc = "failed"
        /\ bots[c].exc = "ValueError"
        /\ bots[c].missing_keys = <<"DEEPGRAM_API_KEY", "ELEVENLABS_API_KEY">>
        /\ {"AZURE_OPENAI_API_KEY", "AZURE_OPENAI_ENDPOINT"} \subseteq settings.keys

(***************************************************************************)
(* Properties of the reduction to the token budget                         *)
(***************************************************************************)
\* C30: when the block formatted from all summaries is over the budget,
\* the text returned is the formatting of the longest most-recent-first
\* prefix that fits, every entry of it as in the full block; the one-line
\* fallback naming the number of conversations is returned only when not
\* even the most recent summary alone fits.
C30_LongestFittingPrefix ==
    (/\ fmt_out.kind # "-"
     /\ fmt_in # <<>>
     /\ count_tokens(FormatConversations(fmt_in)) > MAX_TOKENS)
        => LET fits == { n \in 1..Len(fmt_in) :
                           count_tokens(FormatConversations(SubSeq(fmt_in, 1, n)))
                              <= MAX_TOKENS }
               longest == CHOOSE n \in fits : \A m \in fits : m <= n
           IN  IF fits = {}
               THEN /\ fmt_out.kind = "minimal"
                    /\ fmt_out.n = Len(fmt_in)
                    /\ count_tokens(FormatConversations(SubSeq(fmt_in, 1, 1))) > MAX_TOKENS
               ELSE /\ fmt_out.kind = "full"
                    /\ Len(fmt_out.entries) = longest
                    /\ \A i \in 1..longest :
                         fmt_out.entries[i] = FormatConversations(fmt_in).entries[i]

\* Of three summaries the two oldest were dropped and the most recent one
\* was returned alone.
C30_Witness ==
    /\ Len(fmt_in) = 3
    /\ fmt_out.kind = "full"
    /\ Len(fmt_out.entries) = 1
    /\ count_tokens(FormatConversations(SubSeq(fmt_in, 1, 2))) > MAX_TOKENS

(***************************************************************************)
(* The recent conversations behind a computed context                      *)
(*                                                                         *)
(* Gets alone, over a store that no request changes: MaxRecent             *)
(* conversations started one after the other, some of them of the other    *)
(* user and some still active.                                             *)
(***************************************************************************)
MaxRecent == 8

\* The conversation table: row c was started at c; the rows in foreign are
\* those of u2, the rows in open have no ended_at.
RecentStore(foreign, open) ==
    [c \in 1..MaxRecent |->
        [user_id |-> IF c \in foreign THEN "u2" ELSE "u1",
         started_at |-> c, started_naive |-> FALSE,
         ended_at |-> IF c \in open THEN Null ELSE c,
         duration_seconds |-> IF c \in open THEN Null ELSE 0,
         daily_room_id |-> "",
         main_topic |-> IF c \in open THEN NoTxt ELSE T("Life Path Number"),
         key_insights |-> IF c \in open THEN NoTxt ELSE T("your life path is 7"),
         numbers_discussed |-> IF c \in open THEN NoTxt ELSE T("7")]]

InitRecent ==
    /\ IdleDispatch /\ IdleSave /\ IdleFmt /\ IdleStart
    /\ \E foreign \in SUBSET {1, MaxRecent}, open \in SUBSET {2, MaxRecent - 1, MaxRecent} :
         db_convs = RecentStore(foreign, open)
    /\ cache = [u \in Users |-> NoEntry]
    /\ wseq = 0
    /\ rooms = {}
    /\ ereq = <<>>
    /\ greq = [g \in GetIds |-> IdleGet]
    /\ hist = [ended |-> {}, inval_any |-> [u \in Users |-> -1],
               inval_ok |-> [u \in Users |-> -1]]

NextRecent ==
    \/ \E g \in GetIds : GetCheck(g) /\ UNCHANGED <<dispatchVars, fmtVars, now, saveVars, messages, startVars>>
    \/ \E g \in GetIds : GetCompute(g) /\ UNCHANGED <<dispatchVars, fmtVars, now, saveVars, messages, startVars>>
    \/ \E g \in GetIds : GetStore(g) /\ UNCHANGED <<dispatchVars, fmtVars, now, saveVars, messages, startVars>>
    \/ \E u \in Users : Expire(u) /\ UNCHANGED <<dispatchVars, fmtVars, now, saveVars, messages, startVars>>

SpecRecent == InitRecent /\ [][NextRecent]_vars

\* C31: the context computed on a miss, and so the context cached for a
\* user, is built from the completed conversations of that user only: its
\* i-th entry is the completed conversation of the user that has i - 1
\* more recent ones, it has at most five entries, and it is empty exactly
\* when the user has no completed conversation.
C31_ContextFromRecentCompleted ==
    LET completed(user) ==
            { c \in DOMAIN db_convs : /\ db_convs[c].user_id = user
                                      /\ db_convs[c].ended_at # Null }
        newer(user, c) ==
            { q \in completed(user) : db_convs[q].started_at > db_convs[c].started_at }
        BuiltFor(user, text) ==
            /\ text.kind = "empty" <=> completed(user) = {}
            /\ text.kind = "minimal" => text.n = Min(5, Cardinality(completed(user)))
            /\ text.kind = "full" =>
                 /\ Len(text.entries) = Min(5, Cardinality(completed(user)))
                 /\ \A i \in DOMAIN text.entries :
                      \E c \in completed(user) :
                          /\ Cardinality(newer(user, c)) = i - 1
                          /\ text.entries[i].date = db_convs[c].started_at
                          /\ text.entries[i].topic = db_convs[c].main_topic
                          /\ text.entries[i].numbers = db_convs[c].numbers_discussed
    IN  /\ \A g \in GetIds :
             (greq[g].pc = "computed" /\ greq[g].db_ok)
                 => BuiltFor(greq[g].user_id, greq[g].context)
        /\ \A g \in GetIds :
             (greq[g].pc = "done" /\ greq[g].how = "computed" /\ greq[g].db_ok)
                 => BuiltFor(greq[g].user_id, greq[g].out.val)
        /\ \A u \in Users :
             (cache[u] # NoEntry /\ cache[u].text.kind # "empty")
                 => BuiltFor(u, cache[u].text)

\* C31 witness: a get of u1 computed and stored a context of five entries
\* while u1 had more than five completed conversations, an active one that
\* was started after all of them, and u2 had a completed one started last.
C31_Witness ==
    /\ greq["g1"].pc = "done"
    /\ greq["g1"].how = "computed"
    /\ greq["g1"].db_ok
    /\ greq["g1"].user_id = "u1"
    /\ greq["g1"].out.val.kind = "full"
    /\ Len(greq["g1"].out.val.entries) = 5
    /\ Cardinality({ c \in DOMAIN db_convs : /\ db_convs[c].user_id = "u1"
                                             /\ db_convs[c].ended_at # Null }) > 5
    /\ db_convs[MaxRecent].user_id = "u2"
    /\ db_convs[MaxRecent].ended_at # Null
    /\ db_convs[MaxRecent - 1].user_id = "u1"
    /\ db_convs[MaxRecent - 1].ended_at = Null
    /\ cache["u1"] # NoEntry
    /\ cache["u1"].text = greq["g1"].out.val

\* C32: a cache hit returns the stored text and leaves the cache as it
\* was; a miss whose redis.set is answered stores the computed text in the
\* entry of that user and of no other, with a time-to-live of 1800
\* seconds, and returns the text it stored.
C32_HitReadsMissStores ==
    [][\A g \in GetIds :
         /\ (greq[g].pc = "idle" /\ greq'[g].pc = "done" /\ greq'[g].how = "hit")
              => /\ cache' = cache
                 /\ cache[greq'[g].user_id] # NoEntry
                 /\ greq'[g].out = Ret(cache[greq'[g].user_id].text)
         /\ (greq[g].pc = "computed" /\ greq'[g].pc = "done"
                                     /\ greq'[g].how = "computed")
              => /\ cache'[greq[g].user_id] # NoEntry
                 /\ cache'[greq[g].user_id].text = greq[g].context
                 /\ cache'[greq[g].user_id].ttl = 1800
                 /\ greq'[g].out = Ret(cache'[greq[g].user_id].text)
                 /\ \A u \in Users \ {greq[g].user_id} : cache'[u] = cache[u]
      ]_vars

\* C32 witness: one get missed, computed and stored a text, and another
\* get of the same user returned that entry as a hit.
C32_Witness ==
    /\ greq["g1"].pc = "done"
    /\ greq["g1"].how = "computed"
    /\ greq["g2"].pc = "done"
    /\ greq["g2"].how = "hit"
    /\ greq["g2"].user_id = greq["g1"].user_id
    /\ greq["g2"].stamp = greq["g1"].stamp
    /\ greq["g2"].out = greq["g1"].out
    /\ cache[greq["g1"].user_id].ttl = 1800

\* C33: saves that overlap neither corrupt nor block one another: the
\* persisted rows are at every moment exactly one row per save that has
\* committed, each with the role and the content of its save, so k saves
\* that all succeed leave k rows; a save handed to a worker can always take
\* its next step whatever the other saves do; and no step of a save,
\* failing or not, removes or alters a row that is already persisted.
C33_OverlappingSavesIndependent ==
    [][LET Saved(ts) == { k \in DOMAIN ts : ts[k].st = "saved" }
           RowOf(ts, k) == [conv |-> PipelineConv, seq |-> ts[k].seq,
                            role |-> ts[k].role, content |-> ts[k].content,
                            timestamp |-> ts[k].ts]
           OneRowPerSave(ts, rows) ==
               /\ rows = { RowOf(ts, k) : k \in Saved(ts) }
               /\ Cardinality(rows) = Cardinality(Saved(ts))
       IN  /\ OneRowPerSave(tasks, messages)
           /\ OneRowPerSave(tasks', messages')
           /\ messages \subseteq messages'
           /\ \A k \in DOMAIN tasks :
                /\ tasks[k].st = "in_thread" => ENABLED SaveStamp(k)
                /\ tasks[k].st = "stamped" => ENABLED SaveCommit(k)
      ]_vars

\* C33 witness: the second save was stamped and committed while the first,
\* started before it, was still with its worker; the first then failed at
\* its commit, and the row of the second is the one row persisted.
C33_Witness ==
    /\ Len(tasks) = 2
    /\ tasks[1].st = "logged"
    /\ tasks[2].st = "saved"
    /\ tasks[1].ts > tasks[2].ts
    /\ tasks[2].ts > 0
    /\ Cardinality(messages) = 1
    /\ \E r \in messages : r.seq = tasks[2].seq /\ r.content = tasks[2].content

\* C34: ending a conversation whose stored started_at is timezone-naive
\* does not fail: while the open conversation has a naive start, no end
\* request is answered with a 500.
C34_NaiveStartEndsWithoutError ==
    \A e \in EndIds :
        (db_convs["c1"].started_naive /\ ereq[e].pc = "done")
            => ereq[e].status # 500

(***************************************************************************)
(* Validation in the tool handlers                                         *)
(***************************************************************************)
\* How many times the handler of function_name reaches its call of the
\* engine for the argument value: the call follows strptime in the try of
\* handle_calculate_life_path, and the early return for a falsy or blank
\* name in the two name handlers.
engine_calls(function_name, value) ==
    IF function_name = "calculate_life_path"
    THEN (IF strptime(value).ok THEN 1 ELSE 0)
    ELSE IF ~Truthy(value) THEN 0
    ELSE IF ~Strip(value).ok THEN 0
    ELSE IF Strip(value).val = <<>> THEN 0
    ELSE 1

C36_NoStaleWriteAfterInvalidation ==
    \A e \in EndIds :
        ( /\ ereq[e].pc = "done"
          /\ ereq[e].status = 200
          /\ ereq[e].inval_ok
          /\ \A g \in GetIds : greq[g].pc \in {"idle", "done"} )
            => LET entry == cache[ereq[e].user_id]
               IN  \/ entry = NoEntry
                   \/ entry.text.kind = "empty"
                   \/ Includes(entry.text, ereq[e].conv)

\* C37: a get that finds an entry in the cache (stored by a get that
\* missed, and neither expired nor invalidated since) is a hit: it returns
\* the text of the entry, does not query storage and does not write the
\* cache, also when the text of the entry is the empty string computed
\* for a user with no completed conversation.
C37_GetAfterMissIsHit ==
    [][\A g \in GetIds :
         ( /\ greq[g].pc = "idle"
           /\ greq'[g].pc # "idle"
           /\ ~(greq'[g].pc = "done" /\ greq'[g].how = "error")
           /\ cache[greq'[g].user_id] # NoEntry
           /\ \/ cache[greq'[g].user_id].text.kind # "empty"
              \/ \A c \in DOMAIN db_convs :
                    db_convs[c].user_id = greq'[g].user_id => db_convs[c].ended_at = Null )
            => /\ greq'[g].pc = "done"
               /\ greq'[g].how = "hit"
               /\ greq'[g].out = Ret(cache[greq'[g].user_id].text)
               /\ cache' = cache
      ]_vars

(***************************************************************************)
(* A conversation that is ended while its pipeline is talking              *)
(*                                                                         *)
(* The pipeline of c1 adds messages and saves them in worker threads while *)
(* an end request for c1 is served. end_conversation reads the message     *)
(* rows for the summary and sets ended_at; it neither waits for the save   *)
(* tasks of the pipeline nor stops it, and _db_save does not read the      *)
(* conversation row.                                                       *)
(***************************************************************************)
InitTalk ==
    /\ IdleDispatch /\ IdleSave /\ IdleFmt /\ IdleStart
    /\ db_convs = (PipelineConv :>
                     [user_id |-> "u1", started_at |-> 1, started_naive |-> FALSE,
                      ended_at |-> Null, duration_seconds |-> Null,
                      daily_room_id |-> "room-c1",
                      main_topic |-> NoTxt, key_insights |-> NoTxt,
                      numbers_discussed |-> NoTxt])
    /\ rooms = {"room-c1"}
    /\ cache = [u \in Users |-> NoEntry]
    /\ wseq = 0
    /\ ereq = [e \in EndIds |-> IdleEndReq]
    /\ greq = [g \in GetIds |-> IdleGet]
    /\ hist = [commits |-> [c \in ConvIds |-> 0],
               inval_calls |-> [c \in ConvIds |-> 0],
               inval_any |-> [u \in Users |-> -1],
               inval_ok |-> [u \in Users |-> -1],
               ended |-> {}]

NextTalk ==
    \/ AddMessage /\ UNCHANGED <<dispatchVars, fmtVars, endVars, startVars>>
    \/ (\E k \in DOMAIN tasks : StartSave(k)) /\ UNCHANGED <<dispatchVars, fmtVars, endVars, startVars>>
    \/ (\E k \in DOMAIN tasks : SaveStamp(k)) /\ UNCHANGED <<dispatchVars, fmtVars, endVars, startVars>>
    \/ (\E k \in DOMAIN tasks : SaveCommit(k)) /\ UNCHANGED <<dispatchVars, fmtVars, endVars, startVars>>
    \/ Tick /\ UNCHANGED <<dispatchVars, fmtVars, endVars, startVars>>
    \/ EndCheck("e1") /\ UNCHANGED <<dispatchVars, fmtVars, now, saveVars, messages, startVars>>
    \/ EndSummary("e1") /\ UNCHANGED <<dispatchVars, fmtVars, now, saveVars, messages, startVars>>
    \/ EndCommit("e1") /\ UNCHANGED <<dispatchVars, fmtVars, now, saveVars, messages, startVars>>
    \/ EndInvalidate("e1") /\ UNCHANGED <<dispatchVars, fmtVars, now, saveVars, messages, startVars>>
    \/ EndDeleteRoom("e1") /\ UNCHANGED <<dispatchVars, fmtVars, now, saveVars, messages, startVars>>

SpecTalk == InitTalk /\ [][NextTalk]_vars

\* C38: no message is appended to a conversation after it has ended: every
\* persisted message of an ended conversation has a timestamp not later
\* than the ended_at of the conversation.
C38_NoMessageAfterEnd ==
    \A r \in messages :
        db_convs[r.conv].ended_at # Null
            => r.timestamp <= db_convs[r.conv].ended_at

\* C39: the summary stored by end_conversation is computed from every
\* message added to the running context before the end request: when the
\* summary is generated, every save that was stamped before the request
\* was received and has not failed has its row among the message rows the
\* summary is computed from.
C39_SummaryCoversEarlierMessages ==
    [][(ereq["e1"].pc = "checked" /\ ereq'["e1"].pc = "summarized")
          => \A k \in DOMAIN tasks :
                ( /\ tasks[k].st # "logged"
                  /\ tasks[k].ts # 0
                  /\ tasks[k].ts < ereq["e1"].ended_at )
                 => \E r \in messages : /\ r.conv = ereq["e1"].conv
                                        /\ r.seq = tasks[k].seq
                                        /\ r.content = tasks[k].content
      ]_vars

\* C40: a failed create_room leaves no room at the provider: when a start
\* request has been answered with an error raised by create_room, the room
\* of its conversation does not exist.
C40_FailedCreateRoomLeavesNoRoom ==
    \A s \in StartIds :
        (sreq[s].pc = "done" /\ sreq[s].status = 500 /\ sreq[s].failed_at = "room")
            => RoomName(sreq[s].conv) \notin rooms
====
